---- MODULE Spec2Model ----
(***************************************************************************)
(* Model of the hybrid search of the QMD Obsidian plugin                   *)
(* (src/src/search/hybrid-search.ts): one call of HybridSearcher.search,   *)
(* its two concurrently running branches, the reciprocal rank fusion, the  *)
(* score normalisation, the minScore filter and the limit truncation.      *)
(*                                                                         *)
(* Numbers.  TLA+ has no fractions.  An RRF score is a sum of terms        *)
(* 1 / (k + rank); it is held as its numerator over the common denominator *)
(* RrfDenom(k), so sums, differences and comparisons are exact.  A         *)
(* normalizedScore is held as the fraction num / den with den > 0.         *)
(* Optional values (an option left out, an absent field, a null result)    *)
(* are None == <<>>, a present value v is Some(v) == <<v>>.                *)
(***************************************************************************)
EXTENDS Integers, Sequences, FiniteSets, TLC

\* ------------------------------------------------------------------ bounds
MaxLen == 3                       \* longest candidate list a searcher returns
Hashes == {"a", "b", "c"}         \* document hashes of the corpus

\* ------------------------------------------------------- program constants
DEFAULT_LIMIT == 10
DEFAULT_CANDIDATE_LIMIT == 20
DEFAULT_RRF_K == 60

\* ---------------------------------------------------------- option values
None == <<>>
Some(v) == <<v>>
OrDefault(opt, d) == IF opt = None THEN d ELSE opt[1]

Min(a, b) == IF a <= b THEN a ELSE b
Max(a, b) == IF a >= b THEN a ELSE b

\* ------------------------------------------------------------------ inputs
Strategies == {"graceful", "fail"}
Queries == {"", "q"}
EnableFlags == {None, Some(TRUE), Some(FALSE)}
RrfKs == {None, Some(-1), Some(0), Some(1)}
Limits == {None, Some(-1), Some(0), Some(2)}
MinScores == {None, Some(0), Some(50), Some(100)}

OptionSets ==
  [enableBM25 : EnableFlags, enableVector : EnableFlags, rrfK : RrfKs,
   limit : Limits, minScore : MinScores]

\* Errors the collaborators raise.
FtsErrors == {[name |-> "SearchError", code |-> "QUERY_ERROR"]}
VecErrors == {[name |-> "VectorSearchError", code |-> c] :
                c \in {"EMBEDDER_NOT_AVAILABLE", "DIMENSION_MISMATCH"}}
HybridError(c) == [name |-> "HybridSearchError", code |-> c]

\* ------------------------------------------------- candidate lists (input)
SeqsUpTo(S, n) == UNION {[1..m -> S] : m \in 0..n}
NoRepeat(s) == \A i, j \in DOMAIN s : i # j => s[i] # s[j]

\* Scores of the rows of a lexical list by position: the rows come in
\* ascending raw BM25 order (-9, -4, -3, -1, 0) and carry
\* score = 100 / (1 + |raw|).
LexRowScores == <<10, 20, 25, 50, 100>>

\* Similarities of the rows of a vector list by position: the rows come in
\* ascending distance order (0, 0.5, 1, 1.5, 2) and carry
\* similarity = (1 - distance / 2) * 100.
VecRowSimilarities == <<100, 75, 50, 25, 0>>

\* FTSSearcher.search: one row per document (documents.hash is the primary
\* key), rank = position.
LexRow(h, i) == [hash |-> h, score |-> LexRowScores[Min(i, 5)], rank |-> i]
LexLists ==
  {[i \in DOMAIN s |-> LexRow(s[i], i)] :
     s \in {t \in SeqsUpTo(Hashes, Min(MaxLen, DEFAULT_CANDIDATE_LIMIT)) : NoRepeat(t)}}

\* VectorSearcher.searchWithEmbedding: one row per matching chunk, so a hash
\* may repeat; rank = position.
VecRow(h, i) == [hash |-> h, similarity |-> VecRowSimilarities[Min(i, 5)], rank |-> i]
VecLists ==
  {[i \in DOMAIN s |-> VecRow(s[i], i)] :
     s \in SeqsUpTo(Hashes, Min(MaxLen, DEFAULT_CANDIDATE_LIMIT))}

\* --------------------------------------------------------------- fractions
\* RrfDenomUpTo(k, n) = (k + 1) * ... * (k + n), a multiple of every k + rank
RECURSIVE RrfDenomUpTo(_, _)
RrfDenomUpTo(k, n) == IF n = 0 THEN 1 ELSE (k + n) * RrfDenomUpTo(k, n - 1)
RrfDenom(k) == RrfDenomUpTo(k, MaxLen)
\* the number 1 and the term 1 / (k + rank), over RrfDenom(k)
One(k) == RrfDenom(k)
\* slip: the rank is added instead of its reciprocal
RrfContributionLinear(k, rank) == k + rank
RrfContribution(k, rank) == RrfDenom(k) \div (k + rank)

\* ------------------------------------------------------------- rrfFusion
\* scoreMap: a JavaScript Map keyed by hash, as the sequence of its values in
\* insertion order; set() on a present key keeps the key's position.
MapHas(scoreMap, h) == \E i \in DOMAIN scoreMap : scoreMap[i].hash = h
MapIndex(scoreMap, h) == CHOOSE i \in DOMAIN scoreMap : scoreMap[i].hash = h
MapSet(scoreMap, e) ==
  IF MapHas(scoreMap, e.hash)
  THEN [scoreMap EXCEPT ![MapIndex(scoreMap, e.hash)] = e]
  ELSE Append(scoreMap, e)

\* bm25Results.forEach((result, index) => scoreMap.set(result.hash, {...}))
RECURSIVE ProcessBM25(_, _, _, _)
ProcessBM25(scoreMap, bm25Results, index, k) ==
  IF index >= Len(bm25Results) THEN scoreMap
  ELSE LET result == bm25Results[index + 1]
           rank == index + 1
           entry == [hash |-> result.hash,
                     rrfScore |-> RrfContribution(k, rank),
                     bm25Score |-> Some(result.score),
                     similarity |-> None,
                     bm25Rank |-> Some(rank),
                     vectorRank |-> None]
       IN ProcessBM25(MapSet(scoreMap, entry), bm25Results, index + 1, k)

\* vectorResults.forEach((result, index) => existing ? accumulate : set)
VectorEntry(scoreMap, result, rank, k) ==
  IF MapHas(scoreMap, result.hash)
  THEN LET existing == scoreMap[MapIndex(scoreMap, result.hash)]
       IN [existing EXCEPT !.rrfScore = @ + RrfContribution(k, rank),
                           !.similarity = Some(result.similarity),
                           !.vectorRank = Some(rank)]
  ELSE [hash |-> result.hash,
        rrfScore |-> RrfContribution(k, rank),
        bm25Score |-> None,
        similarity |-> Some(result.similarity),
        bm25Rank |-> None,
        vectorRank |-> Some(rank)]

RECURSIVE ProcessVector(_, _, _, _)
ProcessVector(scoreMap, vectorResults, index, k) ==
  IF index >= Len(vectorResults) THEN scoreMap
  ELSE LET result == vectorResults[index + 1]
           rank == index + 1
       IN ProcessVector(MapSet(scoreMap, VectorEntry(scoreMap, result, rank, k)),
                        vectorResults, index + 1, k)

\* Array.prototype.sort((a, b) => b.rrfScore - a.rrfScore): stable, descending
RECURSIVE InsertByRrfScore(_, _)
InsertByRrfScore(sorted, e) ==
  IF sorted = <<>> THEN <<e>>
  ELSE IF Head(sorted).rrfScore >= e.rrfScore
       THEN <<Head(sorted)>> \o InsertByRrfScore(Tail(sorted), e)
       ELSE <<e>> \o sorted

\* slip: the sort is left out
SortKeepsInsertionOrder(entries) == entries

RECURSIVE SortByRrfScore(_)
SortByRrfScore(entries) ==
  IF entries = <<>> THEN <<>>
  ELSE InsertByRrfScore(SortByRrfScore(SubSeq(entries, 1, Len(entries) - 1)),
                        entries[Len(entries)])

\* slip: the minimum is not subtracted
ScoreRangeFromZero(maxScore, minScore, k) == maxScore
\* const scoreRange = maxScore - minScore || 1
ScoreRange(maxScore, minScore, k) ==
  IF maxScore - minScore = 0 THEN One(k) ELSE maxScore - minScore

\* maxScore, minScore, scoreRange and the final map() of rrfFusion
NormalizeAndRank(fusedResults, k) ==
  LET n == Len(fusedResults)
      maxScore == IF n = 0 \/ fusedResults[1].rrfScore = 0
                  THEN One(k) ELSE fusedResults[1].rrfScore
      minScore == IF n = 0 THEN 0 ELSE fusedResults[n].rrfScore
      scoreRange == ScoreRange(maxScore, minScore, k)
  IN [index \in 1..n |->
        [hash |-> fusedResults[index].hash,
         rrfScore |-> fusedResults[index].rrfScore,
         bm25Score |-> fusedResults[index].bm25Score,
         similarity |-> fusedResults[index].similarity,
         bm25Rank |-> fusedResults[index].bm25Rank,
         vectorRank |-> fusedResults[index].vectorRank,
         normalizedScore |-> [num |-> (fusedResults[index].rrfScore - minScore) * 100,
                              den |-> scoreRange],
         rank |-> index]]

rrfFusion(bm25Results, vectorResults, k) ==
  NormalizeAndRank(
    SortByRrfScore(ProcessVector(ProcessBM25(<<>>, bm25Results, 0, k),
                                 vectorResults, 0, k)),
    k)

\* ------------------------------------------- filter and limit of search()
\* r.normalizedScore >= minScore
ScoreAtLeast(normalizedScore, minScore) ==
  normalizedScore.num >= minScore * normalizedScore.den

\* slip: > instead of >=
FilterStrictlyAbove(hybridResults, minScore) ==
  IF minScore = None THEN hybridResults
  ELSE SelectSeq(hybridResults,
                 LAMBDA r : r.normalizedScore.num > minScore[1] * r.normalizedScore.den)
FilterMinScore(hybridResults, minScore) ==
  IF minScore = None THEN hybridResults
  ELSE SelectSeq(hybridResults,
                 LAMBDA r : ScoreAtLeast(r.normalizedScore, minScore[1]))

\* Array.prototype.slice(0, limit): a negative limit counts from the end
SliceTo(results, limit) ==
  LET n == Len(results)
      end == IF limit < 0 THEN Max(n + limit, 0) ELSE Min(limit, n)
  IN SubSeq(results, 1, end)

\* ------------------------------------------------------------------- state
VARIABLES
  fallbackStrategy,  \* constructor argument of the HybridSearcher
  query,             \* argument of search()
  options,           \* argument of search(), fields None when left out
  pc,                \* search(): "call", "awaiting", "returned", "rejected"
  bm25pc,            \* executeBM25Search: "notStarted", "skipped", "running",
                     \*   "resolved", "rejected"
  vecpc,             \* executeVectorSearch: "notStarted", "skipped",
                     \*   "isAvailable", "generateEmbedding", "resolved", "rejected"
  bm25Results,       \* value the lexical promise resolved with (None = null)
  vectorResults,     \* value the vector promise resolved with (None = null)
  bm25Error,         \* error the lexical searcher threw, None if it did not
  vecError,          \* error the vector searcher threw, None if it did not
  hybridResults,     \* what rrfFusion returned, None before fusion ran
  returned,          \* list search() resolved with, None if it has not
  error,             \* error search() rejected with, None if it has not
  ftsCalls,          \* calls of FTSSearcher.search
  vecCalls,          \* calls of VectorSearcher.search
  embedderCalls      \* calls of the embedder (isAvailable, generateEmbedding)

hybridVars == <<fallbackStrategy, query, options, pc, bm25pc, vecpc,
                bm25Results, vectorResults, bm25Error, vecError, hybridResults,
                returned, error, ftsCalls, vecCalls, embedderCalls>>

\* state of one call of an entry point of the FTSSearcher
VARIABLES
  ftsCall,           \* the call: [entry, query, minScore, limit]
  ftsPc,             \* "call", "executing", "returned", "thrown"
  ftsStatement,      \* the statement handed to db.prepare, None if none was
  ftsPrepared,       \* number of statements prepared
  ftsDocs,           \* raw bm25 magnitudes of the active documents that match
  ftsEngineError,    \* message of the error the engine threw, None if none
  ftsResult,         \* list the entry point resolved with, None if it has not
  ftsError           \* code of the SearchError it rejected with, None if not

ftsVars == <<ftsCall, ftsPc, ftsStatement, ftsPrepared, ftsDocs,
             ftsEngineError, ftsResult, ftsError>>

\* state of one call of search or searchWithEmbedding of the VectorSearcher
VARIABLES
  vsCall,            \* the call: [entry, query, embedding, minSimilarity, limit]
  vsPc,              \* "search", "generateEmbedding",
                     \*   "searchWithEmbedding", "executing", "returned", "thrown"
  vsEmbedding,       \* length of the query vector, None before there is one
  vsBound,           \* bytes bound to the statement, None if none were
  vsPrepared,        \* number of statements prepared
  vsAvailable,       \* what embedder.isAvailable() resolved with, None if
                     \*   it was not called
  vsGenerateCalls,   \* calls of embedder.generateEmbedding
  vsRows,            \* distances of the rows the KNN query gave, None if none
  vsResult,          \* list the call resolved with, None if it has not
  vsError            \* code of the VectorSearchError it rejected with

vsVars == <<vsCall, vsPc, vsEmbedding, vsBound, vsPrepared, vsAvailable,
            vsGenerateCalls, vsRows, vsResult, vsError>>

\* state of one call of BatchEmbeddingProcessor.processChunks
VARIABLES
  bpOptions,         \* [batchSize, continueOnError, maxRetries]
  bpChunks,          \* number of chunks handed in; chunk i is hash_seq i
  bpPc,              \* "embedding", "storing", "returned"
  bpBatchIndex,      \* batchIndex of the loop
  bpAttempt,         \* attempt of the retry loop for the current chunk
  bpResults,         \* results of processBatchWithRetry so far
  bpCompleted,       \* completed
  bpFailed,          \* failed
  bpErrors,          \* errors.length
  bpStored,          \* rows of vectors_vec: [hashSeq, length]
  bpServed           \* per chunk, length of the vector embedChunk resolved
                     \*   with, None if it did not

bpVars == <<bpOptions, bpChunks, bpPc, bpBatchIndex, bpAttempt, bpResults,
            bpCompleted, bpFailed, bpErrors, bpStored, bpServed>>

\* state of one call of DocumentChunker.chunkDocument
VARIABLES
  ckOptions,         \* constructor options: [maxTokens, overlapPercent]
  ckContent,         \* the content argument, a string of characters
  ckPc,              \* "call", "returned"
  ckChunks           \* the list chunkDocument returned, None before

ckVars == <<ckOptions, ckContent, ckPc, ckChunks>>

\* state of the plugin's file watcher (main.ts) over a vault and the
\* documents table
VARIABLES
  fwVault,           \* per path, the content of the markdown file, None if
                     \*   there is no file
  fwDocuments,       \* rows of documents: [hash, path, active]
  fwTimeout,         \* fileWatcherTimeout: None, or [path, pending] of the
                     \*   callback last scheduled
  fwAwaiting,        \* paths with a create or modify event since
                     \*   updateDocument was last invoked for them
  fwErrors           \* the handlers whose error was caught and logged

fwVars == <<fwVault, fwDocuments, fwTimeout, fwAwaiting, fwErrors>>

\* state of one call of CollectionManager.removeCollection
VARIABLES
  cmCall,            \* the call: [name, collections, documents], the
                     \*   tables as they were when it was made
  cmPc,              \* "call", "run", "returned", "thrown"
  cmStep,            \* number of statements of the call that have run
  cmCollections,     \* rows of collections: [id, name]
  cmDocuments,       \* rows of documents: [hash, collection_id]
  cmError            \* what the call rejected with, None if it has not

cmVars == <<cmCall, cmPc, cmStep, cmCollections, cmDocuments, cmError>>

\* state of a DocumentIndexer's debounced file event handlers
VARIABLES
  ixTimers,          \* debounceTimers: per path, the timer id, None if the
                     \*   map has no entry
  ixHost,            \* the timeouts the host holds, set and neither fired
                     \*   nor cleared: [id, path, kind]
  ixNextId,          \* the id the next setTimeout returns
  ixRan,             \* the timeouts whose callback ran
  ixCleared          \* the timeouts cleared while the host held them, each
                     \*   with the call that cleared it: [call, paths]

ixVars == <<ixTimers, ixHost, ixNextId, ixRan, ixCleared>>

\* state of an OllamaEmbedder and of the call of generateEmbedding under way
VARIABLES
  emModelAvailable,  \* modelAvailable: None for null, else Some(boolean)
  emActualModel,     \* actualModel
  emPc,              \* "idle", "unavailable", "call", "isAvailable",
                     \*   "embed", "resolved", "thrown"
  emChecked,         \* the call is made for a chunk by
                     \*   processDocumentsWithGracefulDegradation, after
                     \*   checkOllamaAvailability reported available
  emRequests,        \* models of the embed requests the call has issued
  emResponses,       \* the answers to them
  emError            \* code of the EmbeddingError the call rejected with

emVars == <<emModelAvailable, emActualModel, emPc, emChecked, emRequests,
            emResponses, emError>>

\* state of an open QMDSearchModal
VARIABLES
  smInput,           \* searchInputEl.value, a string of characters
  smActiveTab,       \* activeTab
  smTimeout,         \* searchTimeout: None, or [query, pending] of the
                     \*   callback last scheduled
  smIsSearching,     \* isSearching
  smInFlight,        \* the search awaited: None, or [query, tab]
  smDisplayed        \* what resultsContainerEl shows: [kind, query, tab]

smVars == <<smInput, smActiveTab, smTimeout, smIsSearching, smInFlight,
            smDisplayed>>

\* the components after the chunker
laterVars == <<fwVars, cmVars, ixVars, emVars, smVars>>

vars == <<hybridVars, ftsVars, vsVars, bpVars, ckVars, laterVars>>

\* the variables a call of HybridSearcher.search leaves alone
nonHybridVars == <<ftsVars, vsVars, bpVars, ckVars, laterVars>>

\* no call of the FTSSearcher under way
FtsIdle ==
  /\ ftsCall = <<>>
  /\ ftsPc = "idle"
  /\ ftsStatement = <<>>
  /\ ftsPrepared = 0
  /\ ftsDocs = <<>>
  /\ ftsEngineError = <<>>
  /\ ftsResult = <<>>
  /\ ftsError = <<>>

\* no call of the VectorSearcher under way
VsIdle ==
  /\ vsCall = <<>>
  /\ vsPc = "idle"
  /\ vsEmbedding = <<>>
  /\ vsBound = <<>>
  /\ vsPrepared = 0
  /\ vsAvailable = <<>>
  /\ vsGenerateCalls = 0
  /\ vsRows = <<>>
  /\ vsResult = <<>>
  /\ vsError = <<>>

\* no call of the BatchEmbeddingProcessor under way
BpIdle ==
  /\ bpOptions = <<>>
  /\ bpChunks = 0
  /\ bpPc = "idle"
  /\ bpBatchIndex = 0
  /\ bpAttempt = 0
  /\ bpResults = <<>>
  /\ bpCompleted = 0
  /\ bpFailed = 0
  /\ bpErrors = 0
  /\ bpStored = {}
  /\ bpServed = <<>>

\* no call of the DocumentChunker under way
CkIdle ==
  /\ ckOptions = <<>>
  /\ ckContent = <<>>
  /\ ckPc = "idle"
  /\ ckChunks = <<>>

\* the file watcher is not registered
FwIdle ==
  /\ fwVault = <<>>
  /\ fwDocuments = {}
  /\ fwTimeout = <<>>
  /\ fwAwaiting = {}
  /\ fwErrors = {}

\* no call of the CollectionManager under way
CmIdle ==
  /\ cmCall = <<>>
  /\ cmPc = "idle"
  /\ cmStep = 0
  /\ cmCollections = {}
  /\ cmDocuments = {}
  /\ cmError = <<>>

\* no DocumentIndexer handles file events
IxIdle ==
  /\ ixTimers = <<>>
  /\ ixHost = {}
  /\ ixNextId = 0
  /\ ixRan = {}
  /\ ixCleared = {}

\* no OllamaEmbedder is constructed
EmIdle ==
  /\ emModelAvailable = <<>>
  /\ emActualModel = ""
  /\ emPc = "none"
  /\ emChecked = FALSE
  /\ emRequests = <<>>
  /\ emResponses = <<>>
  /\ emError = <<>>

\* no QMDSearchModal is open
SmIdle ==
  /\ smInput = <<>>
  /\ smActiveTab = ""
  /\ smTimeout = <<>>
  /\ smIsSearching = FALSE
  /\ smInFlight = <<>>
  /\ smDisplayed = <<>>

LaterIdle ==
  /\ FwIdle
  /\ CmIdle
  /\ IxIdle
  /\ EmIdle
  /\ SmIdle

inputVars == <<fallbackStrategy, query, options>>
bm25Vars == <<bm25pc, bm25Results, bm25Error, ftsCalls>>
vecVars == <<vecpc, vectorResults, vecError, vecCalls, embedderCalls>>
outcomeVars == <<hybridResults, returned, error>>

\* the destructuring defaults of search()
Limit(o) == OrDefault(o.limit, DEFAULT_LIMIT)
RrfK(o) == OrDefault(o.rrfK, DEFAULT_RRF_K)
EnableBM25(o) == OrDefault(o.enableBM25, TRUE)
EnableVector(o) == OrDefault(o.enableVector, TRUE)

\* slip: the check of the enable flags is left out
InvalidOptionsRrfKOnly(o) == RrfK(o) <= 0

\* the two validations of search()
InvalidOptions(o) ==
  \/ ~EnableBM25(o) /\ ~EnableVector(o)
  \/ RrfK(o) <= 0

\* !query || query.trim().length === 0, and a query that sanitizes to ""
Blank(q) == q = ""

\* slip: the catch rethrows whatever the strategy
CatchAlwaysRethrows(strategy) == TRUE
\* catch (error) { if (this.fallbackStrategy === 'fail') throw error; ... }
CatchRethrows(strategy) == strategy = "fail"

Init ==
  /\ fallbackStrategy \in Strategies
  /\ query \in Queries
  /\ options \in OptionSets
  /\ pc = "call"
  /\ bm25pc = "notStarted"
  /\ vecpc = "notStarted"
  /\ bm25Results = None
  /\ vectorResults = None
  /\ bm25Error = None
  /\ vecError = None
  /\ hybridResults = None
  /\ returned = None
  /\ error = None
  /\ ftsCalls = 0
  /\ vecCalls = 0
  /\ embedderCalls = 0
  /\ FtsIdle
  /\ VsIdle
  /\ BpIdle
  /\ CkIdle
  /\ LaterIdle

\* no call of HybridSearcher.search under way
HybridIdle ==
  /\ fallbackStrategy = "fail"
  /\ query = ""
  /\ options = <<>>
  /\ pc = "idle"
  /\ bm25pc = "notStarted"
  /\ vecpc = "notStarted"
  /\ bm25Results = None
  /\ vectorResults = None
  /\ bm25Error = None
  /\ vecError = None
  /\ hybridResults = None
  /\ returned = None
  /\ error = None
  /\ ftsCalls = 0
  /\ vecCalls = 0
  /\ embedderCalls = 0

\* search() is called with invalid options: it rejects at once.
SearchInvalid ==
  /\ pc = "call"
  /\ InvalidOptions(options)
  /\ pc' = "rejected"
  /\ error' = Some(HybridError("INVALID_OPTIONS"))
  /\ UNCHANGED <<nonHybridVars, inputVars, bm25Vars, vecVars, hybridResults, returned>>

\* search() is called with valid options: it runs, without yielding, up to
\* `await Promise.all(searchPromises)`.  Each enabled branch is called; a
\* searcher returns [] for a blank query before it touches its collaborator.
SearchStart ==
  /\ pc = "call"
  /\ ~InvalidOptions(options)
  /\ pc' = "awaiting"
  /\ IF EnableBM25(options)
     THEN /\ ftsCalls' = ftsCalls + 1
          /\ IF Blank(query)
             THEN bm25pc' = "resolved" /\ bm25Results' = Some(<<>>)
             ELSE bm25pc' = "running" /\ UNCHANGED bm25Results
     ELSE /\ bm25pc' = "skipped"
          /\ UNCHANGED <<ftsCalls, bm25Results>>
  /\ IF EnableVector(options)
     THEN /\ vecCalls' = vecCalls + 1
          /\ IF Blank(query)
             THEN /\ vecpc' = "resolved"
                  /\ vectorResults' = Some(<<>>)
                  /\ UNCHANGED embedderCalls
             ELSE /\ vecpc' = "isAvailable"
                  /\ embedderCalls' = embedderCalls + 1
                  /\ UNCHANGED vectorResults
     ELSE /\ vecpc' = "skipped"
          /\ UNCHANGED <<vecCalls, vectorResults, embedderCalls>>
  /\ UNCHANGED <<nonHybridVars, inputVars, bm25Error, vecError, outcomeVars>>

\* slip: a rejection is swallowed (Promise.allSettled)
PromiseAllIgnoresRejection(e) == UNCHANGED <<pc, error>>
\* Promise.all rejects with the first rejection; later ones are dropped.
PromiseAllRejects(e) ==
  IF pc = "awaiting"
  THEN pc' = "rejected" /\ error' = Some(e)
  ELSE UNCHANGED <<pc, error>>

\* ftsSearcher.search resolves with its rows.
BM25Return(rows) ==
  /\ bm25pc = "running"
  /\ bm25pc' = "resolved"
  /\ bm25Results' = Some(rows)
  /\ UNCHANGED <<nonHybridVars, inputVars, pc, bm25Error, ftsCalls, vecVars, outcomeVars>>

\* ftsSearcher.search throws e: the catch of executeBM25Search.
BM25Throw(e) ==
  /\ bm25pc = "running"
  /\ bm25Error' = Some(e)
  /\ IF CatchRethrows(fallbackStrategy)
     THEN /\ bm25pc' = "rejected"
          /\ PromiseAllRejects(e)
     ELSE /\ bm25pc' = "resolved"
          /\ UNCHANGED <<pc, error>>
  /\ UNCHANGED <<nonHybridVars, inputVars, bm25Results, ftsCalls, vecVars, hybridResults, returned>>

\* the catch of executeVectorSearch
VectorCatch(e) ==
  /\ vecError' = Some(e)
  /\ IF CatchRethrows(fallbackStrategy)
     THEN /\ vecpc' = "rejected"
          /\ PromiseAllRejects(e)
     ELSE /\ vecpc' = "resolved"
          /\ UNCHANGED <<pc, error>>
  /\ UNCHANGED <<nonHybridVars, inputVars, vectorResults, vecCalls, bm25Vars, hybridResults, returned>>

\* embedder.isAvailable() answers: generateEmbedding is called, or
\* VectorSearcher.search throws EMBEDDER_NOT_AVAILABLE.
VectorIsAvailable(available) ==
  /\ vecpc = "isAvailable"
  /\ IF available
     THEN /\ vecpc' = "generateEmbedding"
          /\ embedderCalls' = embedderCalls + 1
          /\ UNCHANGED <<nonHybridVars, inputVars, pc, vectorResults, vecError, vecCalls,
                         bm25Vars, outcomeVars>>
     ELSE /\ VectorCatch([name |-> "VectorSearchError",
                          code |-> "EMBEDDER_NOT_AVAILABLE"])
          /\ UNCHANGED embedderCalls

\* generateEmbedding and searchWithEmbedding resolve with the rows.
VectorReturn(rows) ==
  /\ vecpc = "generateEmbedding"
  /\ vecpc' = "resolved"
  /\ vectorResults' = Some(rows)
  /\ UNCHANGED <<nonHybridVars, inputVars, pc, vecError, vecCalls, embedderCalls, bm25Vars,
                 outcomeVars>>

\* generateEmbedding or searchWithEmbedding throws.
VectorThrow(e) ==
  /\ vecpc = "generateEmbedding"
  /\ VectorCatch(e)
  /\ UNCHANGED embedderCalls

\* slip: no results is never an error
NoResultsAlwaysEmpty(strategy) == "empty"
\* what search() does once Promise.all has resolved
HasResults(results) == results # None /\ Len(results[1]) > 0
NoResultsOutcome(strategy) ==
  IF strategy = "fail" THEN "NO_RESULTS" ELSE "empty"

\* slip: the first resolved promise wins (Promise.race)
PromiseAnyResolved ==
  \/ bm25pc \in {"resolved", "skipped"}
  \/ vecpc \in {"resolved", "skipped"}
\* Promise.all(searchPromises) resolves once every promise has resolved
\* (a disabled branch is Promise.resolve(null)).
PromiseAllResolved ==
  /\ bm25pc \in {"resolved", "skipped"}
  /\ vecpc \in {"resolved", "skipped"}

SearchJoin ==
  /\ pc = "awaiting"
  /\ PromiseAllResolved
  /\ LET hasBM25 == HasResults(bm25Results)
         hasVector == HasResults(vectorResults)
         fused == rrfFusion(OrDefault(bm25Results, <<>>),
                            OrDefault(vectorResults, <<>>), RrfK(options))
     IN IF ~hasBM25 /\ ~hasVector
        THEN IF NoResultsOutcome(fallbackStrategy) = "NO_RESULTS"
             THEN /\ pc' = "rejected"
                  /\ error' = Some(HybridError("NO_RESULTS"))
                  /\ UNCHANGED <<hybridResults, returned>>
             ELSE /\ pc' = "returned"
                  /\ returned' = Some(<<>>)
                  /\ UNCHANGED <<hybridResults, error>>
        ELSE /\ pc' = "returned"
             /\ hybridResults' = Some(fused)
             /\ returned' = Some(SliceTo(FilterMinScore(fused, options.minScore),
                                         Limit(options)))
             /\ UNCHANGED error
  /\ UNCHANGED <<nonHybridVars, inputVars, bm25Vars, vecVars>>

Next ==
  \/ SearchInvalid
  \/ SearchStart
  \/ \E rows \in LexLists : BM25Return(rows)
  \/ \E e \in FtsErrors : BM25Throw(e)
  \/ \E available \in BOOLEAN : VectorIsAvailable(available)
  \/ \E rows \in VecLists : VectorReturn(rows)
  \/ \E e \in VecErrors : VectorThrow(e)
  \/ SearchJoin

Spec == Init /\ [][Next]_vars

TypeOK ==
  /\ pc \in {"call", "awaiting", "returned", "rejected"}
  /\ bm25pc \in {"notStarted", "skipped", "running", "resolved", "rejected"}
  /\ vecpc \in {"notStarted", "skipped", "isAvailable", "generateEmbedding",
                 "resolved", "rejected"}

\* ======================================================================
\* Properties
\* ======================================================================
HashesOf(list) == {list[i].hash : i \in DOMAIN list}
SearchDone == pc \in {"returned", "rejected"}
LexRows == OrDefault(bm25Results, <<>>)
VecRows == OrDefault(vectorResults, <<>>)
Passes(r) ==
  options.minScore = None \/ ScoreAtLeast(r.normalizedScore, options.minScore[1])

\* C1: search rejects with INVALID_OPTIONS whenever both enable flags are
\* false or rrfK <= 0, and then no searcher and no embedder was invoked.
C1_InvalidOptionsBeforeAnyBranch ==
  (/\ pc # "call"
   /\ \/ options.enableBM25 = Some(FALSE) /\ options.enableVector = Some(FALSE)
      \/ options.rrfK # None /\ options.rrfK[1] <= 0)
  => /\ pc = "rejected"
     /\ error = Some(HybridError("INVALID_OPTIONS"))
     /\ returned = None
     /\ ftsCalls = 0 /\ vecCalls = 0 /\ embedderCalls = 0
     /\ bm25pc = "notStarted" /\ vecpc = "notStarted"

C1_Witness ==
  /\ pc = "rejected"
  /\ options.enableBM25 = Some(FALSE) /\ options.enableVector = Some(FALSE)
  /\ options.rrfK = None
  /\ error = Some(HybridError("INVALID_OPTIONS"))

\* C2 (as stated): under 'graceful', when one enabled branch threw and the
\* other returned n >= 1 candidates, search returns (does not throw) the
\* fused records of exactly the survivor's candidates cut to limit, each with
\* only the survivor's score/rank fields.
LexFailedVecSurvived ==
  bm25Error # None /\ vecError = None /\ HasResults(vectorResults)
VecFailedLexSurvived ==
  vecError # None /\ bm25Error = None /\ HasResults(bm25Results)
OnlyVectorFields(r) ==
  /\ r.similarity # None /\ r.vectorRank # None
  /\ r.bm25Score = None /\ r.bm25Rank = None
OnlyLexicalFields(r) ==
  /\ r.bm25Score # None /\ r.bm25Rank # None
  /\ r.similarity = None /\ r.vectorRank = None
SliceLen(n, limit) == IF limit < 0 THEN Max(n + limit, 0) ELSE Min(limit, n)

SurvivorReturned(rows, cutTo) ==
  /\ pc = "returned" /\ error = None /\ returned # None
  /\ HashesOf(returned[1]) \subseteq HashesOf(rows)
  /\ NoRepeat([i \in DOMAIN returned[1] |-> returned[1][i].hash])
  /\ Len(returned[1]) = SliceLen(cutTo, Limit(options))

C2_SurvivorCutToLimitOnly ==
  (fallbackStrategy = "graceful" /\ SearchDone)
  => /\ LexFailedVecSurvived
        => /\ SurvivorReturned(VecRows, Cardinality(HashesOf(VecRows)))
           /\ \A i \in DOMAIN returned[1] : OnlyVectorFields(returned[1][i])
     /\ VecFailedLexSurvived
        => /\ SurvivorReturned(LexRows, Cardinality(HashesOf(LexRows)))
           /\ \A i \in DOMAIN returned[1] : OnlyLexicalFields(returned[1][i])

\* C2 (amended): ... returns the fused records of the survivor's candidates
\* (one per distinct hash) that pass the minScore filter when a minScore is
\* given, cut to limit, each with only the survivor's score/rank fields.
PassingCount ==
  Cardinality({i \in DOMAIN hybridResults[1] : Passes(hybridResults[1][i])})

C2_SurvivorFilteredThenCut ==
  (fallbackStrategy = "graceful" /\ SearchDone)
  => /\ LexFailedVecSurvived
        => /\ hybridResults # None
           /\ HashesOf(hybridResults[1]) = HashesOf(VecRows)
           /\ SurvivorReturned(VecRows, PassingCount)
           /\ \A i \in DOMAIN returned[1] :
                 OnlyVectorFields(returned[1][i]) /\ Passes(returned[1][i])
     /\ VecFailedLexSurvived
        => /\ hybridResults # None
           /\ HashesOf(hybridResults[1]) = HashesOf(LexRows)
           /\ SurvivorReturned(LexRows, PassingCount)
           /\ \A i \in DOMAIN returned[1] :
                 OnlyLexicalFields(returned[1][i]) /\ Passes(returned[1][i])

C2_Witness ==
  /\ fallbackStrategy = "graceful" /\ pc = "returned"
  /\ LexFailedVecSurvived
  /\ Len(VecRows) = 3 /\ Len(returned[1]) = 3

\* C3: rrfFusion yields exactly one record per distinct hash, whose rrfScore
\* is 1/(k + bm25Rank) if the hash is in the lexical list plus
\* 1/(k + vectorRank) if it is in the vector list, the ranks being the
\* record's reported positions (at most one contribution per list).
C3_OneContributionPerList ==
  hybridResults # None
  => LET fused == hybridResults[1]
         k == RrfK(options)
     IN /\ HashesOf(fused) = HashesOf(LexRows) \cup HashesOf(VecRows)
        /\ Len(fused) = Cardinality(HashesOf(fused))
        /\ \A i \in DOMAIN fused :
             LET r == fused[i]
                 inLex == r.hash \in HashesOf(LexRows)
                 inVec == r.hash \in HashesOf(VecRows)
             IN /\ inLex <=> r.bm25Rank # None
                /\ inVec <=> r.vectorRank # None
                /\ inLex => LexRows[r.bm25Rank[1]].hash = r.hash
                /\ inVec => VecRows[r.vectorRank[1]].hash = r.hash
                /\ r.rrfScore =
                     (IF inLex THEN RrfContribution(k, r.bm25Rank[1]) ELSE 0)
                     + (IF inVec THEN RrfContribution(k, r.vectorRank[1]) ELSE 0)

\* C4: the returned list is ordered by rrfScore non-increasing and the
\* record at position i has rank i, also after the filter and the limit.
C4_ReturnedSortedRanksGapless ==
  returned # None
  => \A i \in DOMAIN returned[1] :
       /\ returned[1][i].rank = i
       /\ i < Len(returned[1])
          => returned[1][i].rrfScore >= returned[1][i + 1].rrfScore

C4_Witness ==
  /\ returned # None /\ hybridResults # None
  /\ options.minScore = Some(50)
  /\ Len(returned[1]) = 2 /\ Len(hybridResults[1]) = 3
  /\ returned[1][1].rrfScore > returned[1][2].rrfScore

\* C5: in a non-empty fused set every normalizedScore is in [0, 100]; rank 1
\* has 100 and the last record 0, unless all rrfScores are equal, when every
\* normalizedScore is 0.
C5_NormalizedBounds ==
  (hybridResults # None /\ hybridResults[1] # <<>>)
  => LET fused == hybridResults[1]
         n == Len(fused)
         allEqual == \A i, j \in DOMAIN fused : fused[i].rrfScore = fused[j].rrfScore
         Norm(i) == fused[i].normalizedScore
     IN /\ \A i \in DOMAIN fused :
             /\ Norm(i).den > 0
             /\ 0 <= Norm(i).num /\ Norm(i).num <= 100 * Norm(i).den
        /\ IF allEqual
           THEN \A i \in DOMAIN fused : Norm(i).num = 0
           ELSE /\ Norm(1).num = 100 * Norm(1).den
                /\ Norm(n).num = 0

C5_Witness ==
  /\ hybridResults # None /\ Len(hybridResults[1]) = 3
  /\ hybridResults[1][1].normalizedScore.num = 100 * hybridResults[1][1].normalizedScore.den
  /\ hybridResults[1][2].normalizedScore.num > 0
  /\ hybridResults[1][3].normalizedScore.num = 0

\* C6: for lists without repeated hashes, if A ranks at least as well as B in
\* every list where B appears and either strictly better in one of them or
\* also appears in a list without B, then A's rrfScore is strictly greater
\* and A is placed before B.
RankIn(rows, h) == CHOOSE i \in DOMAIN rows : rows[i].hash = h
Dominates(a, b) ==
  LET aLex == a \in HashesOf(LexRows)
      bLex == b \in HashesOf(LexRows)
      aVec == a \in HashesOf(VecRows)
      bVec == b \in HashesOf(VecRows)
  IN /\ bLex \/ bVec
     /\ bLex => aLex /\ RankIn(LexRows, a) <= RankIn(LexRows, b)
     /\ bVec => aVec /\ RankIn(VecRows, a) <= RankIn(VecRows, b)
     /\ \/ bLex /\ RankIn(LexRows, a) < RankIn(LexRows, b)
        \/ bVec /\ RankIn(VecRows, a) < RankIn(VecRows, b)
        \/ aLex /\ ~bLex
        \/ aVec /\ ~bVec

C6_RankDominance ==
  (/\ hybridResults # None
   /\ NoRepeat([i \in DOMAIN VecRows |-> VecRows[i].hash])
   /\ NoRepeat([i \in DOMAIN LexRows |-> LexRows[i].hash]))
  => \A i, j \in DOMAIN hybridResults[1] :
       Dominates(hybridResults[1][i].hash, hybridResults[1][j].hash)
       => /\ hybridResults[1][i].rrfScore > hybridResults[1][j].rrfScore
          /\ i < j

C6_Witness ==
  /\ hybridResults # None /\ Len(hybridResults[1]) = 3
  /\ Len(LexRows) = 3 /\ Len(VecRows) = 1
  /\ LexRows[3].hash = VecRows[1].hash
  /\ hybridResults[1][1].hash = LexRows[3].hash
  /\ Dominates(LexRows[1].hash, LexRows[2].hash)
  /\ ~Dominates(LexRows[3].hash, LexRows[1].hash)

\* C7: under 'fail', once an enabled branch has thrown, search is rejected
\* with a branch's own error (the first one thrown), never a fused result
\* and never NO_RESULTS, whether or not the other branch has completed.
C7_FailPropagatesBranchError ==
  (fallbackStrategy = "fail" /\ (bm25Error # None \/ vecError # None))
  => /\ pc = "rejected"
     /\ returned = None /\ hybridResults = None
     /\ error # None
     /\ error \in ({bm25Error, vecError} \ {None})
     /\ error[1].name # "HybridSearchError"
     /\ (bm25Error = None \/ vecError = None)
        => error = (IF bm25Error # None THEN bm25Error ELSE vecError)

C7_Witness ==
  /\ fallbackStrategy = "fail"
  /\ bm25Error # None /\ error = bm25Error
  /\ vecpc = "isAvailable"
  /\ pc = "rejected"

C9_FilterThenTruncate ==
  (returned # None /\ hybridResults # None /\ Limit(options) >= 0)
  => LET fused == hybridResults[1]
         res == returned[1]
     IN /\ Len(res) = Min(Limit(options), PassingCount)
        /\ \A i \in DOMAIN res : res[i] = fused[i] /\ Passes(res[i])
        /\ \A i \in DOMAIN fused :
             (Passes(fused[i]) /\ i > Len(res)) => Len(res) = Limit(options)

C9_Witness ==
  /\ returned # None /\ hybridResults # None
  /\ options.limit = Some(2) /\ options.minScore = Some(100)
  /\ Len(hybridResults[1]) = 3 /\ Len(returned[1]) = 1

\* C10: with both branches enabled, both searches are started before search
\* waits on either; under 'graceful' fusion runs and search completes only
\* after both branches have completed, so while a branch has not completed
\* nothing is returned.
BothEnabledValid ==
  EnableBM25(options) /\ EnableVector(options) /\ RrfK(options) > 0
BranchCompleted(bpc) == bpc \in {"resolved", "rejected"}

C10_StartBothJoinBoth ==
  (BothEnabledValid /\ pc # "call")
  => /\ ftsCalls = 1 /\ vecCalls = 1
     /\ bm25pc # "notStarted" /\ vecpc # "notStarted"
     /\ (fallbackStrategy = "graceful"
         /\ (SearchDone \/ hybridResults # None \/ returned # None))
        => BranchCompleted(bm25pc) /\ BranchCompleted(vecpc)

C10_Witness ==
  /\ BothEnabledValid /\ fallbackStrategy = "graceful"
  /\ pc = "awaiting"
  /\ bm25pc = "resolved" /\ Len(LexRows) = 2
  /\ vecpc = "generateEmbedding"
  /\ returned = None

\* ======================================================================
\* FTSSearcher (fts-search.ts): one call of one of its entry points
\* ======================================================================
MaxQueryLen == 2
FTS_DEFAULT_LIMIT == 20

\* exact fractions; den = 0 stands for Infinity
Frac(n, d) == [num |-> n, den |-> d]
FracLe(a, b) == a.num * b.den <= b.num * a.den
FracLt(a, b) == a.num * b.den < b.num * a.den
FracEq(a, b) == a.num * b.den = b.num * a.den
Abs(a) == Frac(IF a.num < 0 THEN -a.num ELSE a.num, a.den)
Infinity == Frac(1, 0)

\* raw bm25 values of the engine, zero or negative
RawScores == {Frac(0, 1), Frac(-1, 2), Frac(-1, 1), Frac(-3, 1)}

\* (1 / (1 + Math.abs(bm25Score))) * 100
normalizeBM25Score(bm25Score) ==
  Frac(100 * bm25Score.den, bm25Score.den + Abs(bm25Score).num)

\* slip: the inverse forgets the "- 1"
denormalizeToBM25NoMinusOne(normalizedScore) ==
  IF normalizedScore <= 0 THEN Infinity
  ELSE IF normalizedScore >= 100 THEN Frac(0, 1)
  ELSE Frac(100, normalizedScore)
\* Infinity at or below 0, 0 at or above 100, (100 / normalizedScore) - 1
denormalizeToBM25(normalizedScore) ==
  IF normalizedScore <= 0 THEN Infinity
  ELSE IF normalizedScore >= 100 THEN Frac(0, 1)
  ELSE Frac(100 - normalizedScore, normalizedScore)

\* A query is a string over: a blank, a word character, a special character
\* of FTS5_SPECIAL_CHARS, a wildcard, a column filter, a boolean operator.
FtsSymbols == {" ", "a", "(", "*", "title:", "AND"}
FtsQueries == SeqsUpTo(FtsSymbols, MaxQueryLen)

\* the characters of \s that strings of the model hold
Whitespace == {" ", "\n"}
IsSpace(c) == c \in Whitespace

RECURSIVE TrimStart(_)
TrimStart(s) ==
  IF s = <<>> THEN s
  ELSE IF IsSpace(Head(s)) THEN TrimStart(Tail(s)) ELSE s
RECURSIVE TrimEnd(_)
TrimEnd(s) ==
  IF s = <<>> THEN s
  ELSE IF IsSpace(s[Len(s)]) THEN TrimEnd(SubSeq(s, 1, Len(s) - 1)) ELSE s
Trim(s) == TrimEnd(TrimStart(s))

\* /["*?]|(?:^|\s)(AND|OR|NOT)(?:\s|$)|(?:title|content):/i
FTS5_EXPLICIT_SYNTAX(s) ==
  \E i \in DOMAIN s :
    \/ s[i] = "*"
    \/ s[i] \in {"title:", "content:"}
    \/ /\ s[i] = "AND"
       /\ i = 1 \/ s[i - 1] = " "
       /\ i = Len(s) \/ s[i + 1] = " "

\* .replace(FTS5_SPECIAL_CHARS, ' ')
ReplaceSpecialChars(s) == [i \in DOMAIN s |-> IF s[i] = "(" THEN " " ELSE s[i]]
\* .replace(/\s+/g, ' ')
RECURSIVE CollapseWhitespace(_)
CollapseWhitespace(s) ==
  IF Len(s) < 2 THEN s
  ELSE IF s[1] = " " /\ s[2] = " " THEN CollapseWhitespace(Tail(s))
  ELSE <<s[1]>> \o CollapseWhitespace(Tail(s))

\* sanitizeFTS5Query: trim, explicit syntax kept as is, else special
\* characters blanked and whitespace collapsed
sanitizeFTS5Query(q) ==
  LET sanitized == Trim(q)
  IN IF sanitized = <<>> THEN <<>>
     ELSE IF FTS5_EXPLICIT_SYNTAX(sanitized) THEN sanitized
     ELSE Trim(CollapseWhitespace(ReplaceSpecialChars(sanitized)))

\* messages of the errors the engine throws, character by character
NoSuchTableMessage ==
  <<"n", "o", " ", "s", "u", "c", "h", " ", "t", "a", "b", "l", "e", ":",
    " ", "d", "o", "c", "u", "m", "e", "n", "t", "s", "_", "f", "t", "s">>
NoSuchModuleMessage ==
  <<"n", "o", " ", "s", "u", "c", "h", " ", "m", "o", "d", "u", "l", "e",
    ":", " ", "f", "t", "s", "5">>
SyntaxErrorMessage ==
  <<"f", "t", "s", "5", ":", " ", "s", "y", "n", "t", "a", "x", " ", "e",
    "r", "r", "o", "r", " ", "n", "e", "a", "r", " ", "\"", "(", "\"">>
DiskImageMessage ==
  <<"d", "a", "t", "a", "b", "a", "s", "e", " ", "d", "i", "s", "k", " ",
    "i", "m", "a", "g", "e", " ", "i", "s", " ", "m", "a", "l", "f", "o",
    "r", "m", "e", "d">>
EngineMessages ==
  {NoSuchTableMessage, NoSuchModuleMessage, SyntaxErrorMessage, DiskImageMessage}

\* String.prototype.includes
Includes(s, sub) ==
  \E i \in 0..(Len(s) - Len(sub)) : SubSeq(s, i + 1, i + Len(sub)) = sub

\* error instanceof Error && error.message.includes('fts5')
TreatedAsNoResults(message) == Includes(message, <<"f", "t", "s", "5">>)

FtsEntries == {"search", "searchWithSnippets", "searchTitles", "searchContent"}
FtsMinScores == {None, Some(0), Some(30), Some(50), Some(100)}
FtsLimits == {None, Some(2)}
FtsCallsOf ==
  [entry : FtsEntries, query : FtsQueries, minScore : FtsMinScores,
   limit : FtsLimits]

\* the query search / searchWithSnippets is entered with
DelegatedQuery(call) ==
  CASE call.entry = "searchTitles" -> <<"title:">> \o sanitizeFTS5Query(call.query)
    [] call.entry = "searchContent" -> <<"content:">> \o sanitizeFTS5Query(call.query)
    [] OTHER -> call.query

\* ORDER BY bm25_score ASC of a set of distinct raw values
RECURSIVE OrderByScoreAsc(_)
OrderByScoreAsc(raws) ==
  IF raws = {} THEN <<>>
  ELSE LET first == CHOOSE r \in raws : \A o \in raws : FracLe(r, o)
       IN <<first>> \o OrderByScoreAsc(raws \ {first})

\* the rows the statement yields: WHERE ... [AND abs(bm25) <= ?] ORDER BY
\* bm25_score ASC LIMIT ?
StatementRows(statement, docs) ==
  LET kept == {r \in docs : statement.threshold = None
                            \/ FracLe(Abs(r), statement.threshold[1])}
      ordered == OrderByScoreAsc(kept)
  IN SubSeq(ordered, 1, Min(Len(ordered), statement.limit))

\* results.push({..., score: normalizeBM25Score(bm25Score), rank: rank++})
FtsResults(rows) ==
  [i \in DOMAIN rows |-> [score |-> normalizeBM25Score(rows[i]), rank |-> i]]

FtsInit ==
  /\ ftsCall \in FtsCallsOf
  /\ ftsPc = "call"
  /\ ftsStatement = None
  /\ ftsPrepared = 0
  /\ ftsDocs = None
  /\ ftsEngineError = None
  /\ ftsResult = None
  /\ ftsError = None
  /\ HybridIdle
  /\ VsIdle
  /\ BpIdle
  /\ CkIdle
  /\ LaterIdle

nonFtsVars == <<hybridVars, vsVars, bpVars, ckVars, laterVars>>

\* if (!sanitizedQuery) return [];
FtsReturnEmpty ==
  /\ ftsPc = "call"
  /\ sanitizeFTS5Query(DelegatedQuery(ftsCall)) = <<>>
  /\ ftsPc' = "returned"
  /\ ftsResult' = Some(<<>>)
  /\ UNCHANGED <<nonFtsVars, ftsCall, ftsStatement, ftsPrepared, ftsDocs,
                 ftsEngineError, ftsError>>

\* the statement is built and handed to db.prepare
FtsPrepare ==
  /\ ftsPc = "call"
  /\ sanitizeFTS5Query(DelegatedQuery(ftsCall)) # <<>>
  /\ ftsStatement' =
       Some([match |-> sanitizeFTS5Query(DelegatedQuery(ftsCall)),
             threshold |-> IF ftsCall.minScore # None
                           THEN Some(denormalizeToBM25(ftsCall.minScore[1]))
                           ELSE None,
             limit |-> OrDefault(ftsCall.limit, FTS_DEFAULT_LIMIT)])
  /\ ftsPrepared' = ftsPrepared + 1
  /\ ftsPc' = "executing"
  /\ UNCHANGED <<nonFtsVars, ftsCall, ftsDocs, ftsEngineError, ftsResult,
                 ftsError>>

\* the statement runs over an index in which the active documents of raw
\* values docs match; the rows are converted and returned
FtsRows(docs) ==
  /\ ftsPc = "executing"
  /\ ftsDocs' = Some(docs)
  /\ ftsResult' = Some(FtsResults(StatementRows(ftsStatement[1], docs)))
  /\ ftsPc' = "returned"
  /\ UNCHANGED <<nonFtsVars, ftsCall, ftsStatement, ftsPrepared,
                 ftsEngineError, ftsError>>

\* prepare, bind or step throws an Error with the given message: the catch
FtsEngineThrows(message) ==
  /\ ftsPc = "executing"
  /\ ftsEngineError' = Some(message)
  /\ IF TreatedAsNoResults(message)
     THEN /\ ftsPc' = "returned"
          /\ ftsResult' = Some(<<>>)
          /\ UNCHANGED ftsError
     ELSE /\ ftsPc' = "thrown"
          /\ ftsError' = Some("QUERY_ERROR")
          /\ UNCHANGED ftsResult
  /\ UNCHANGED <<nonFtsVars, ftsCall, ftsStatement, ftsPrepared, ftsDocs>>

FtsNext ==
  \/ FtsReturnEmpty
  \/ FtsPrepare
  \/ \E docs \in SUBSET RawScores : FtsRows(docs)
  \/ \E message \in EngineMessages : FtsEngineThrows(message)

FtsSpec == FtsInit /\ [][FtsNext]_vars

\* ----------------------------------------------------------- properties
FtsExecuted == ftsPc = "returned" /\ ftsDocs # None
\* the matching documents whose 0-100 score is at least minScore
Qualifying(docs, minScore) ==
  {r \in docs : FracLe(Frac(minScore, 1), normalizeBM25Score(r))}

\* normalizeBM25Score(denormalizeToBM25(s)) = s on (0, 100), threshold 0 at 100
RoundTripExact ==
  /\ \A s \in 1..99 :
       FracEq(normalizeBM25Score(denormalizeToBM25(s)), Frac(s, 1))
  /\ denormalizeToBM25(100) = Frac(0, 1)

\* C11: for raw scores a < b <= 0 normalizeBM25Score(a) > normalizeBM25Score(b),
\* and in every lexical result list the 0-100 score is non-increasing with
\* rank.
C11_ScoreNonIncreasingWithRank ==
  FtsExecuted
  => LET rows == StatementRows(ftsStatement[1], ftsDocs[1])
     IN \A i, j \in DOMAIN rows :
          /\ i < j => FracLe(ftsResult[1][j].score, ftsResult[1][i].score)
          /\ FracLt(rows[i], rows[j])
             => FracLt(normalizeBM25Score(rows[j]), normalizeBM25Score(rows[i]))

C13_EmptyQueryNoStatement ==
  (ftsPc # "call" /\ sanitizeFTS5Query(ftsCall.query) = <<>>)
  => /\ ftsPc = "returned"
     /\ ftsResult = Some(<<>>)
     /\ ftsPrepared = 0

\* C14: a missing full-text index ("no such table: documents_fts") gives an
\* empty list and no error; every other engine failure gives QUERY_ERROR.
C14_MissingIndexEmptyElseQueryError ==
  ftsEngineError # None
  => IF ftsEngineError[1] = NoSuchTableMessage
     THEN ftsPc = "returned" /\ ftsResult = Some(<<>>) /\ ftsError = None
     ELSE ftsPc = "thrown" /\ ftsError = Some("QUERY_ERROR") /\ ftsResult = None

\* ======================================================================
\* VectorSearcher (vector-search.ts): one call of search or
\* searchWithEmbedding
\* ======================================================================
MaxRows == 3
VS_DEFAULT_LIMIT == 20
EXPECTED_DIMENSIONS == 768
BYTES_PER_ELEMENT == 4

\* Math.max(lo, Math.min(hi, x)) of a fraction, lo and hi integers
Clamp(x, lo, hi) ==
  IF FracLt(x, Frac(lo, 1)) THEN Frac(lo, 1)
  ELSE IF FracLt(Frac(hi, 1), x) THEN Frac(hi, 1) ELSE x

\* (1 - clampedDistance / 2) * 100
distanceToSimilarity(distance) ==
  LET clampedDistance == Clamp(distance, 0, 2)
  IN Frac(100 * (2 * clampedDistance.den - clampedDistance.num),
          2 * clampedDistance.den)

\* slip: the similarity is not clamped
similarityToDistanceUnclamped(similarity) ==
  Frac(2 * (100 * similarity.den - similarity.num), 100 * similarity.den)
\* 2 * (1 - clampedSimilarity / 100)
similarityToDistance(similarity) ==
  LET clampedSimilarity == Clamp(similarity, 0, 100)
  IN Frac(2 * (100 * clampedSimilarity.den - clampedSimilarity.num),
          100 * clampedSimilarity.den)

\* slip: only a vector that is too short is refused
DimensionMismatchTooShort(length) == length < EXPECTED_DIMENSIONS
\* validateEmbedding: embedding.length !== this.EXPECTED_DIMENSIONS
DimensionMismatch(length) == length # EXPECTED_DIMENSIONS

\* new Uint8Array(embedding.buffer) of an array that owns its buffer
EmbeddingBuffer(length) == BYTES_PER_ELEMENT * length

\* cosine distances the index reports
Distances == {Frac(0, 2), Frac(1, 2), Frac(2, 2), Frac(3, 2), Frac(4, 2)}
\* rows of a KNN query with k = limit: at most k, ORDER BY v.distance ASC
KnnRows(limit) ==
  {rows \in SeqsUpTo(Distances, Min(MaxRows, Max(limit, 0))) :
     \A i, j \in DOMAIN rows : i < j => FracLe(rows[i], rows[j])}

\* the loop of searchWithEmbedding: a row beyond maxDistance is skipped,
\* rank++ only when a row is pushed
RECURSIVE PushRows(_, _, _)
PushRows(rows, maxDistance, results) ==
  IF rows = <<>> THEN results
  ELSE LET distance == Head(rows)
       IN IF maxDistance # None /\ FracLt(maxDistance[1], distance)
          THEN PushRows(Tail(rows), maxDistance, results)
          ELSE PushRows(Tail(rows), maxDistance,
                 Append(results,
                        [similarity |-> distanceToSimilarity(distance),
                         distance |-> distance,
                         rank |-> Len(results) + 1]))

NoVectorsTableMessage ==
  <<"n", "o", " ", "s", "u", "c", "h", " ", "t", "a", "b", "l", "e", ":",
    " ", "v", "e", "c", "t", "o", "r", "s", "_", "v", "e", "c">>
Vec0Message ==
  <<"v", "e", "c", "0", ":", " ", "q", "u", "e", "r", "y", " ", "f", "a",
    "i", "l", "e", "d">>
VecEngineMessages == {NoVectorsTableMessage, Vec0Message, DiskImageMessage}
\* the catch of searchWithEmbedding
VecEngineErrorCode(message) ==
  IF Includes(message, NoVectorsTableMessage) THEN "DB_NOT_INITIALIZED"
  ELSE IF Includes(message, <<"v", "e", "c", "0">>) THEN "QUERY_ERROR"
  ELSE "QUERY_ERROR"

VsQueries == {<<>>, <<" ">>, <<"q">>, <<" ", "q">>}
VsDimensions ==
  {0, EXPECTED_DIMENSIONS - 1, EXPECTED_DIMENSIONS, EXPECTED_DIMENSIONS + 1}
VsMinSimilarities ==
  {None, Some(Frac(-10, 1)), Some(Frac(0, 1)), Some(Frac(50, 1)),
   Some(Frac(60, 1)), Some(Frac(100, 1)), Some(Frac(120, 1))}
VsLimits == {None, Some(2)}
VsCallsOf ==
  [entry : {"search"}, query : VsQueries, embedding : {None},
   minSimilarity : VsMinSimilarities, limit : VsLimits]
  \cup
  [entry : {"searchWithEmbedding"}, query : {<<>>},
   embedding : {Some(d) : d \in VsDimensions},
   minSimilarity : VsMinSimilarities, limit : VsLimits]

VsLimit(call) == OrDefault(call.limit, VS_DEFAULT_LIMIT)
\* !query || query.trim().length === 0
VsBlank(q) == Trim(q) = <<>>

VsInit ==
  /\ vsCall \in VsCallsOf
  /\ vsPc = IF vsCall.entry = "search" THEN "search" ELSE "searchWithEmbedding"
  /\ vsEmbedding = vsCall.embedding
  /\ vsBound = None
  /\ vsPrepared = 0
  /\ vsAvailable = None
  /\ vsGenerateCalls = 0
  /\ vsRows = None
  /\ vsResult = None
  /\ vsError = None
  /\ HybridIdle
  /\ FtsIdle
  /\ BpIdle
  /\ CkIdle
  /\ LaterIdle

nonVsVars == <<hybridVars, ftsVars, bpVars, ckVars, laterVars>>

\* search: a blank query returns [] at once
VsReturnBlank ==
  /\ vsPc = "search"
  /\ VsBlank(vsCall.query)
  /\ vsPc' = "returned"
  /\ vsResult' = Some(<<>>)
  /\ UNCHANGED <<nonVsVars, vsCall, vsEmbedding, vsBound, vsPrepared,
                 vsAvailable, vsGenerateCalls, vsRows, vsError>>

\* slip: an unavailable embedder is asked for the embedding all the same
VsIsAvailableIgnored(isAvailable) ==
  /\ vsPc = "search"
  /\ ~VsBlank(vsCall.query)
  /\ vsAvailable' = Some(isAvailable)
  /\ vsPc' = "generateEmbedding"
  /\ vsGenerateCalls' = vsGenerateCalls + 1
  /\ UNCHANGED <<nonVsVars, vsCall, vsEmbedding, vsBound, vsPrepared, vsRows,
                 vsResult, vsError>>
\* search: with a non-blank query isAvailable() is awaited:
\* if (!isAvailable) throw EMBEDDER_NOT_AVAILABLE, else
\* generateEmbedding(query.trim()) is called
VsIsAvailable(isAvailable) ==
  /\ vsPc = "search"
  /\ ~VsBlank(vsCall.query)
  /\ vsAvailable' = Some(isAvailable)
  /\ IF ~isAvailable
     THEN /\ vsPc' = "thrown"
          /\ vsError' = Some("EMBEDDER_NOT_AVAILABLE")
          /\ UNCHANGED vsGenerateCalls
     ELSE /\ vsPc' = "generateEmbedding"
          /\ vsGenerateCalls' = vsGenerateCalls + 1
          /\ UNCHANGED vsError
  /\ UNCHANGED <<nonVsVars, vsCall, vsEmbedding, vsBound, vsPrepared, vsRows,
                 vsResult>>

\* generateEmbedding rejects: an EmbeddingError becomes
\* EMBEDDER_NOT_AVAILABLE, anything else QUERY_ERROR
VsGenerateThrows(isEmbeddingError) ==
  /\ vsPc = "generateEmbedding"
  /\ vsPc' = "thrown"
  /\ vsError' = Some(IF isEmbeddingError THEN "EMBEDDER_NOT_AVAILABLE"
                     ELSE "QUERY_ERROR")
  /\ UNCHANGED <<nonVsVars, vsCall, vsEmbedding, vsBound, vsPrepared,
                 vsAvailable, vsGenerateCalls, vsRows, vsResult>>

\* generateEmbedding resolves with a vector of the given length, which is
\* handed to searchWithEmbedding as it is
VsGenerateReturns(length) ==
  /\ vsPc = "generateEmbedding"
  /\ vsEmbedding' = Some(length)
  /\ vsPc' = "searchWithEmbedding"
  /\ UNCHANGED <<nonVsVars, vsCall, vsBound, vsPrepared, vsAvailable,
                 vsGenerateCalls, vsRows, vsResult, vsError>>

\* searchWithEmbedding: validateEmbedding throws
VsValidateThrows ==
  /\ vsPc = "searchWithEmbedding"
  /\ DimensionMismatch(vsEmbedding[1])
  /\ vsPc' = "thrown"
  /\ vsError' = Some("DIMENSION_MISMATCH")
  /\ UNCHANGED <<nonVsVars, vsCall, vsEmbedding, vsBound, vsPrepared,
                 vsAvailable, vsGenerateCalls, vsRows, vsResult>>

\* searchWithEmbedding: the statement is prepared and the vector bound
VsPrepare ==
  /\ vsPc = "searchWithEmbedding"
  /\ ~DimensionMismatch(vsEmbedding[1])
  /\ vsPrepared' = vsPrepared + 1
  /\ vsBound' = Some(EmbeddingBuffer(vsEmbedding[1]))
  /\ vsPc' = "executing"
  /\ UNCHANGED <<nonVsVars, vsCall, vsEmbedding, vsAvailable,
                 vsGenerateCalls, vsRows, vsResult, vsError>>

\* the statement yields rows; they are filtered, ranked and returned
VsRows(rows) ==
  /\ vsPc = "executing"
  /\ rows \in KnnRows(VsLimit(vsCall))
  /\ vsRows' = Some(rows)
  /\ vsResult' =
       Some(PushRows(rows,
                     IF vsCall.minSimilarity # None
                     THEN Some(similarityToDistance(vsCall.minSimilarity[1]))
                     ELSE None,
                     <<>>))
  /\ vsPc' = "returned"
  /\ UNCHANGED <<nonVsVars, vsCall, vsEmbedding, vsBound, vsPrepared,
                 vsAvailable, vsGenerateCalls, vsError>>

\* prepare, bind or step throws an Error with the given message
VsEngineThrows(message) ==
  /\ vsPc = "executing"
  /\ vsPc' = "thrown"
  /\ vsError' = Some(VecEngineErrorCode(message))
  /\ UNCHANGED <<nonVsVars, vsCall, vsEmbedding, vsBound, vsPrepared,
                 vsAvailable, vsGenerateCalls, vsRows, vsResult>>

VsNext ==
  \/ VsReturnBlank
  \/ \E isAvailable \in BOOLEAN : VsIsAvailable(isAvailable)
  \/ \E isEmbeddingError \in BOOLEAN : VsGenerateThrows(isEmbeddingError)
  \/ \E length \in VsDimensions : VsGenerateReturns(length)
  \/ VsValidateThrows
  \/ VsPrepare
  \/ \E rows \in KnnRows(MaxRows) : VsRows(rows)
  \/ \E message \in VecEngineMessages : VsEngineThrows(message)

VsSpec == VsInit /\ [][VsNext]_vars

\* ----------------------------------------------------------- properties
VsDone == vsPc \in {"returned", "thrown"}
VsExecuted == vsPc = "returned" /\ vsRows # None
\* clamp(minSimilarity, 0, 100)
ClampedMinSimilarity == Clamp(vsCall.minSimilarity[1], 0, 100)
\* the rows of the KNN query whose similarity meets the threshold
MeetThreshold(rows) ==
  {i \in DOMAIN rows : FracLe(ClampedMinSimilarity, distanceToSimilarity(rows[i]))}

\* C15: search with a non-blank query and an embedder that reports itself
\* unavailable throws EMBEDDER_NOT_AVAILABLE at once: generateEmbedding is
\* not called, no statement is prepared, no list is returned.
C15_UnavailableEmbedderThrowsAtOnce ==
  (~VsBlank(vsCall.query) /\ vsAvailable = Some(FALSE))
  => /\ vsPc = "thrown"
     /\ vsError = Some("EMBEDDER_NOT_AVAILABLE")
     /\ vsResult = None
     /\ vsGenerateCalls = 0
     /\ vsEmbedding = None
     /\ vsPrepared = 0 /\ vsBound = None /\ vsRows = None

C15_Witness ==
  /\ vsCall.entry = "search" /\ vsCall.query = <<" ", "q">>
  /\ vsAvailable = Some(FALSE)
  /\ vsPc = "thrown"

\* C16: a query vector whose length differs from 768 never reaches the
\* index: searchWithEmbedding, and search when the embedder returns such a
\* vector, throw DIMENSION_MISMATCH before any statement is prepared, and the
\* vector that is bound is the one given, neither truncated nor padded.
C16_WrongLengthNeverReachesIndex ==
  /\ (vsEmbedding # None /\ vsEmbedding[1] # 768 /\ vsPc # "searchWithEmbedding")
     => /\ vsPc = "thrown"
        /\ vsError = Some("DIMENSION_MISMATCH")
        /\ vsPrepared = 0 /\ vsBound = None /\ vsRows = None
        /\ vsResult = None
  /\ vsBound # None
     => /\ vsEmbedding = Some(768)
        /\ vsBound[1] = 768 * 4

\* search, the embedder returned 769 numbers
C16_Witness ==
  /\ vsCall.entry = "search"
  /\ vsEmbedding = Some(769)
  /\ vsPc = "thrown"

\* C18: searchWithEmbedding returns ranks 1..n without gaps, distances
\* non-decreasing and similarities non-increasing with rank, n <= limit, and
\* with minSimilarity exactly the rows of similarity >= clamp(minSimilarity,
\* 0, 100), in the order of the rows.
C18_RanksGaplessFilterExact ==
  VsExecuted
  => LET results == vsResult[1]
         rows == vsRows[1]
     IN /\ \A i \in DOMAIN results : results[i].rank = i
        /\ \A i, j \in DOMAIN results :
             i < j => /\ FracLe(results[i].distance, results[j].distance)
                      /\ FracLe(results[j].similarity, results[i].similarity)
        /\ Len(results) <= VsLimit(vsCall)
        /\ vsCall.minSimilarity # None
           => /\ \A i \in DOMAIN results :
                   FracLe(ClampedMinSimilarity, results[i].similarity)
              /\ Len(results) = Cardinality(MeetThreshold(rows))
              /\ \A i \in DOMAIN results :
                   \E k \in MeetThreshold(rows) :
                     /\ results[i].distance = rows[k]
                     /\ Cardinality({m \in MeetThreshold(rows) : m <= k}) = i

\* minSimilarity 120 is clamped to 100: of three rows the one at distance 0
\* is kept; and a row is dropped in front of none (ranks restart at 1)
C18_Witness ==
  /\ VsExecuted
  /\ vsCall.minSimilarity = Some(Frac(120, 1))
  /\ vsRows = Some(<<Frac(0, 2), Frac(1, 2), Frac(4, 2)>>)
  /\ Len(vsResult[1]) = 1

\* ======================================================================
\* BatchEmbeddingProcessor.processChunks (batch-processor.ts) with
\* OllamaEmbedder.embedChunk (db.ts) and the vectors_vec table (schema.ts)
\* ======================================================================
MaxChunks == 3
\* expectedDimensions of the embedder's DEFAULT_CONFIG
expectedDimensions == 768
\* embedding float[768] of VEC0_TABLE_SQL
VEC0_DIMENSIONS == 768

\* lengths of the embedding array the service answers with
ServiceLengths == {expectedDimensions, expectedDimensions \div 2}

\* generateEmbedding after a 200 answer with an embedding array: another
\* length than expectedDimensions is logged ("Proceeding anyway"), and
\* new Float32Array(data.embedding) has the length of the answer
generateEmbedding(length) == length
\* embedChunk: [hashSeq, embedding] of the chunk
embedChunk(chunk, length) ==
  [hashSeq |-> chunk, length |-> generateEmbedding(length)]

\* the vec0 table takes a vector of its declared length only
Vec0Accepts(length) == length = VEC0_DIMENSIONS

BpBatchSizes == {1, 2}
BpMaxRetries == {0, 1}
BpOptionSets ==
  [batchSize : BpBatchSizes, continueOnError : BOOLEAN,
   maxRetries : BpMaxRetries]

\* Math.ceil(chunks.length / batchSize)
TotalBatches == (bpChunks + bpOptions.batchSize - 1) \div bpOptions.batchSize
BatchStart == bpBatchIndex * bpOptions.batchSize
BatchEnd == Min(BatchStart + bpOptions.batchSize, bpChunks)
BatchLength == BatchEnd - BatchStart

BpInit ==
  /\ bpOptions \in BpOptionSets
  /\ bpChunks \in 1..MaxChunks
  /\ bpPc = "embedding"
  /\ bpBatchIndex = 0
  /\ bpAttempt = 0
  /\ bpResults = <<>>
  /\ bpCompleted = 0
  /\ bpFailed = 0
  /\ bpErrors = 0
  /\ bpStored = {}
  /\ bpServed = [c \in 1..bpChunks |-> None]
  /\ HybridIdle
  /\ FtsIdle
  /\ VsIdle
  /\ CkIdle
  /\ LaterIdle

nonBpVars == <<hybridVars, ftsVars, vsVars, ckVars, laterVars>>

\* the chunk the loop of processBatchWithRetry is at
CurrentChunk == BatchStart + Len(bpResults) + 1
\* results.push(...) of processBatchWithRetry; after the last chunk of the
\* batch the transaction follows
PushResult(result) ==
  /\ bpResults' = Append(bpResults, result)
  /\ bpAttempt' = 0
  /\ bpPc' = IF Len(bpResults) + 1 = BatchLength THEN "storing" ELSE "embedding"

\* embedChunk resolves with a vector of the given length
BpEmbedChunkResolves(length) ==
  /\ bpPc = "embedding"
  /\ PushResult([success |-> TRUE,
                 embedding |-> Some(embedChunk(CurrentChunk, length))])
  /\ bpServed' = [bpServed EXCEPT ![CurrentChunk] = Some(length)]
  /\ UNCHANGED <<nonBpVars, bpOptions, bpChunks, bpBatchIndex, bpCompleted,
                 bpFailed, bpErrors, bpStored>>

\* embedChunk rejects: another attempt while attempt < maxRetries, else the
\* chunk's result is a failure
BpEmbedChunkRejects ==
  /\ bpPc = "embedding"
  /\ IF bpAttempt < bpOptions.maxRetries
     THEN /\ bpAttempt' = bpAttempt + 1
          /\ UNCHANGED <<bpResults, bpPc>>
     ELSE PushResult([success |-> FALSE, embedding |-> None])
  /\ UNCHANGED <<nonBpVars, bpOptions, bpChunks, bpBatchIndex, bpCompleted,
                 bpFailed, bpErrors, bpStored, bpServed>>

\* first result of the batch whose insert into vectors_vec throws, 0 if none
FirstRefused(results) ==
  LET refused == {i \in DOMAIN results :
                    /\ results[i].success
                    /\ ~Vec0Accepts(results[i].embedding[1].length)}
  IN IF refused = {} THEN 0
     ELSE CHOOSE i \in refused : \A j \in refused : i <= j

Successes(results, upTo) == {i \in 1..upTo : results[i].success}
Failures(results, upTo) == {i \in 1..upTo : ~results[i].success}

\* INSERT ... ON CONFLICT(hash_seq) DO UPDATE of the given results
Upsert(stored, results, which) ==
  {row \in stored :
     \A i \in which : row.hashSeq # results[i].embedding[1].hashSeq}
  \cup {results[i].embedding[1] : i \in which}

\* the loop goes on with the next batch, or processChunks returns
NextBatch ==
  IF bpBatchIndex + 1 < TotalBatches
  THEN bpBatchIndex' = bpBatchIndex + 1 /\ bpPc' = "embedding"
  ELSE bpBatchIndex' = bpBatchIndex /\ bpPc' = "returned"

\* BEGIN TRANSACTION ... COMMIT: every insert is taken
BpStoreCommit ==
  LET all == Len(bpResults)
  IN /\ bpPc = "storing"
     /\ FirstRefused(bpResults) = 0
     /\ bpStored' = Upsert(bpStored, bpResults, Successes(bpResults, all))
     /\ bpCompleted' = bpCompleted + Cardinality(Successes(bpResults, all))
     /\ bpFailed' = bpFailed + Cardinality(Failures(bpResults, all))
     /\ bpErrors' = bpErrors + Cardinality(Failures(bpResults, all))
     /\ bpResults' = <<>>
     /\ NextBatch
     /\ UNCHANGED <<nonBpVars, bpOptions, bpChunks, bpAttempt, bpServed>>

\* BEGIN TRANSACTION ... an insert throws: ROLLBACK, the counters keep what
\* the results before it added, and the outer catch pushes the error and
\* either breaks or adds the whole batch to failed
BpStoreRollback ==
  LET before == FirstRefused(bpResults) - 1
  IN /\ bpPc = "storing"
     /\ FirstRefused(bpResults) # 0
     /\ bpStored' = bpStored
     /\ bpCompleted' = bpCompleted + Cardinality(Successes(bpResults, before))
     /\ bpErrors' = bpErrors + Cardinality(Failures(bpResults, before)) + 1
     /\ bpResults' = <<>>
     /\ IF ~bpOptions.continueOnError
        THEN /\ bpFailed' = bpFailed + Cardinality(Failures(bpResults, before))
             /\ bpPc' = "returned"
             /\ UNCHANGED bpBatchIndex
        ELSE /\ bpFailed' = bpFailed + Cardinality(Failures(bpResults, before))
                            + BatchLength
             /\ NextBatch
     /\ UNCHANGED <<nonBpVars, bpOptions, bpChunks, bpAttempt, bpServed>>

BpNext ==
  \/ \E length \in ServiceLengths : BpEmbedChunkResolves(length)
  \/ BpEmbedChunkRejects
  \/ BpStoreCommit
  \/ BpStoreRollback

BpSpec == BpInit /\ [][BpNext]_vars

\* ----------------------------------------------------------- properties
\* the chunks for which the service answered with a vector of another
\* length than the expected one
WrongLengthChunks ==
  {c \in 1..bpChunks : bpServed[c] # None /\ bpServed[c][1] # 768}

\* C17: every stored embedding has the expected dimension, and a chunk whose
\* vector has another length is rejected: it is counted as failed and
\* nothing is stored for it.
C17_StoredHaveExpectedDimension ==
  /\ \A row \in bpStored : row.length = 768
  /\ bpPc = "returned"
     => /\ \A c \in WrongLengthChunks : \A row \in bpStored : row.hashSeq # c
        /\ bpFailed >= Cardinality(WrongLengthChunks)

\* ======================================================================
\* DocumentChunker (chunker.ts): one call of chunkDocument
\* ======================================================================
MaxWords == 4

\* A text is a string over a lower-case letter, a capital letter, a full
\* stop, a blank and a newline. No word over these letters is in
\* ABBREVIATIONS and none is a CJK character.
WordChars == {"a", "A"}
Capitals == {"A"}
SentenceEnds == {"."}
IsWord(c) == c \in WordChars

CeilDiv(n, d) == (n + d - 1) \div d

\* matches of /[\w...]+/g: the maximal runs of word characters
WordCount(text) ==
  Cardinality({i \in DOMAIN text :
                 IsWord(text[i]) /\ (i = 1 \/ ~IsWord(text[i - 1]))})
\* matches of /[^\w\s...]/g
PunctuationCount(text) ==
  Cardinality({i \in DOMAIN text : ~IsWord(text[i]) /\ ~IsSpace(text[i])})

\* Math.ceil(englishWordCount * 1.3) + cjkCount + Math.ceil(punctuationCount * 0.5)
estimateTokenCount(text) ==
  IF text = <<>> THEN 0
  ELSE CeilDiv(13 * WordCount(text), 10) + CeilDiv(PunctuationCount(text), 2)

\* last position of the maximal run, from i on, of characters of the class
\* (whitespace or not) of text[i]
RECURSIVE RunEnd(_, _)
RunEnd(text, i) ==
  IF i < Len(text) /\ IsSpace(text[i + 1]) = IsSpace(text[i])
  THEN RunEnd(text, i + 1) ELSE i

\* /\s+/ at i: last position of the match, 0 if there is none
WhitespaceEnd(text, i) == IF IsSpace(text[i]) THEN RunEnd(text, i) ELSE 0
\* /\n\s*\n/ at i
ParagraphBreakEnd(text, i) ==
  IF text[i] # "\n" THEN 0
  ELSE LET ends == {e \in (i + 1)..Len(text) :
                      text[e] = "\n" /\ \A q \in (i + 1)..e : IsSpace(text[q])}
       IN IF ends = {} THEN 0 ELSE CHOOSE e \in ends : \A o \in ends : o <= e
\* /(?<=[.!?])(?:\s+)(?=[A-Z0-9..."])/ at i
SentenceBreakEnd(text, i) ==
  IF /\ IsSpace(text[i])
     /\ i > 1 /\ text[i - 1] \in SentenceEnds
     /\ RunEnd(text, i) < Len(text)
     /\ text[RunEnd(text, i) + 1] \in Capitals
  THEN RunEnd(text, i) ELSE 0

MatchEnd(separator, text, i) ==
  CASE separator = "paragraph" -> ParagraphBreakEnd(text, i)
    [] separator = "sentence" -> SentenceBreakEnd(text, i)
    [] separator = "whitespace" -> WhitespaceEnd(text, i)

\* String.prototype.split with a regular expression
RECURSIVE SplitFrom(_, _, _, _)
SplitFrom(separator, text, start, i) ==
  IF i > Len(text) THEN <<SubSeq(text, start, Len(text))>>
  ELSE LET e == MatchEnd(separator, text, i)
       IN IF e = 0 THEN SplitFrom(separator, text, start, i + 1)
          ELSE <<SubSeq(text, start, i - 1)>>
               \o SplitFrom(separator, text, e + 1, e + 1)
Split(separator, text) == SplitFrom(separator, text, 1, 1)

\* Array.prototype.join
RECURSIVE Join(_, _)
Join(pieces, glue) ==
  IF pieces = <<>> THEN <<>>
  ELSE IF Len(pieces) = 1 THEN pieces[1]
  ELSE pieces[1] \o glue \o Join(Tail(pieces), glue)

\* String.prototype.indexOf and lastIndexOf, positions from 0, -1 if absent
IndexOf(text, sub, from) ==
  LET hits == {i \in from..(Len(text) - Len(sub)) :
                 SubSeq(text, i + 1, i + Len(sub)) = sub}
  IN IF hits = {} THEN -1 ELSE CHOOSE i \in hits : \A o \in hits : i <= o
LastIndexOf(text, sub) ==
  LET hits == {i \in 0..(Len(text) - Len(sub)) :
                 SubSeq(text, i + 1, i + Len(sub)) = sub}
  IN IF hits = {} THEN -1 ELSE CHOOSE i \in hits : \A o \in hits : o <= i

\* the trimmed, non-blank parts of a list of strings
TrimmedNonBlank(parts) ==
  SelectSeq([i \in DOMAIN parts |-> Trim(parts[i])], LAMBDA part : part # <<>>)

RECURSIVE ParagraphsSentences(_)
ParagraphsSentences(paragraphs) ==
  IF paragraphs = <<>> THEN <<>>
  ELSE (IF Trim(Head(paragraphs)) = <<>> THEN <<>>
        ELSE TrimmedNonBlank(Split("sentence", Head(paragraphs))))
       \o ParagraphsSentences(Tail(paragraphs))

splitIntoSentences(text) ==
  IF text = <<>> THEN <<>>
  ELSE LET sentences == ParagraphsSentences(Split("paragraph", text))
       IN IF sentences # <<>> THEN sentences ELSE <<Trim(text)>>

\* text.split(/(\s+)/).filter(Boolean): the words and the blanks between
RECURSIVE splitIntoWords(_)
splitIntoWords(text) ==
  IF text = <<>> THEN <<>>
  ELSE <<SubSeq(text, 1, RunEnd(text, 1))>>
       \o splitIntoWords(SubSeq(text, RunEnd(text, 1) + 1, Len(text)))

TextSegment(text, startPos) ==
  [text |-> text, tokens |-> estimateTokenCount(text), startPos |-> startPos]

\* buildSegments: the word loop of a sentence of more than maxTokens
RECURSIVE WordSegments(_, _, _, _, _)
WordSegments(words, wordChunk, wordPos, chunkStartPos, maxTokens) ==
  IF words = <<>>
  THEN IF Trim(wordChunk) # <<>>
       THEN <<TextSegment(Trim(wordChunk), chunkStartPos)>> ELSE <<>>
  ELSE LET word == Head(words)
           testChunk == wordChunk \o word
       IN IF estimateTokenCount(testChunk) > maxTokens /\ Trim(wordChunk) # <<>>
          THEN <<TextSegment(Trim(wordChunk), chunkStartPos)>>
               \o WordSegments(Tail(words), word, wordPos + Len(word), wordPos,
                               maxTokens)
          ELSE WordSegments(Tail(words), testChunk, wordPos + Len(word),
                            chunkStartPos, maxTokens)

\* buildSegments: the loop over the sentences
RECURSIVE SentenceSegments(_, _, _, _)
SentenceSegments(content, sentences, currentPos, maxTokens) ==
  IF sentences = <<>> THEN <<>>
  ELSE LET sentence == Head(sentences)
           found == IndexOf(content, Trim(sentence), currentPos)
           actualPos == IF found = -1 THEN currentPos ELSE found
       IN (IF estimateTokenCount(sentence) > maxTokens
           THEN WordSegments(splitIntoWords(sentence), <<>>, actualPos,
                             actualPos, maxTokens)
           ELSE <<TextSegment(sentence, actualPos)>>)
          \o SentenceSegments(content, Tail(sentences),
                              actualPos + Len(sentence), maxTokens)

buildSegments(content, maxTokens) ==
  SentenceSegments(content, splitIntoSentences(content), 0, maxTokens)

\* extractOverlapText: the words taken from the end of the list
RECURSIVE OverlapWords(_, _, _)
OverlapWords(words, currentTokens, targetTokens) ==
  IF words = <<>> THEN <<>>
  ELSE LET wordTokens == estimateTokenCount(words[Len(words)])
       IN IF currentTokens + wordTokens > targetTokens THEN <<>>
          ELSE OverlapWords(SubSeq(words, 1, Len(words) - 1),
                            currentTokens + wordTokens, targetTokens)
               \o <<words[Len(words)]>>

\* what extractOverlapText returns for the overlap text it has joined
OverlapAt(text, overlapText, pos) ==
  [text |-> overlapText,
   pos |-> IF pos >= 0 THEN pos ELSE Len(text) - Len(overlapText)]
OverlapOf(text, overlapText) ==
  OverlapAt(text, overlapText, LastIndexOf(text, overlapText))

extractOverlapText(text, targetTokens) ==
  IF targetTokens <= 0 THEN [text |-> <<>>, pos |-> Len(text)]
  ELSE OverlapOf(text,
                 Join(OverlapWords(Split("whitespace", text), 0, targetTokens),
                      <<" ">>))

\* constructor: Math.floor(this.maxTokens * this.overlapPercent)
OverlapTokens(o) ==
  (o.maxTokens * o.overlapPercent.num) \div o.overlapPercent.den

\* currentChunkSegments.map(s => s.text).join(' ')
ChunkText(segments) ==
  Join([i \in DOMAIN segments |-> segments[i].text], <<" ">>)

\* chunks.push({hash, seq, pos: chunkStartPos, text: chunkText,
\* tokenCount: this.estimateTokenCount(chunkText)})
DocumentChunk(seq, pos, text) ==
  [seq |-> seq, pos |-> pos, text |-> text,
   tokenCount |-> estimateTokenCount(text)]
\* the chunk of the current segments
ChunkOf(st) ==
  DocumentChunk(st.seq, st.chunkStartPos, ChunkText(st.currentChunkSegments))

\* flushChunk: overlapText, overlapTokens, overlapStartOffset are set
SetOverlap(st, overlap) ==
  [st EXCEPT !.overlapText = overlap.text,
             !.overlapTokens = estimateTokenCount(overlap.text),
             !.overlapStartOffset = overlap.pos]
\* flushChunk: the chunk is pushed; seq++
PushChunk(st, chunk, o) ==
  SetOverlap([st EXCEPT !.chunks = Append(@, chunk), !.seq = @ + 1],
             extractOverlapText(chunk.text, OverlapTokens(o)))
\* flushChunk of chunkDocument
flushChunk(st, o) ==
  IF st.currentChunkSegments = <<>> THEN st ELSE PushChunk(st, ChunkOf(st), o)

\* the next chunk starts with the overlap of the last one, at pos
SeedOverlap(st, pos) ==
  [st EXCEPT !.chunkStartPos = pos,
             !.currentChunkSegments =
                <<[text |-> st.overlapText, tokens |-> st.overlapTokens,
                   startPos |-> pos]>>,
             !.currentTokens = st.overlapTokens]
\* slip: the overlap offset is taken as a position in the document
ReseedOffsetOnly(flushed, segment) ==
  IF flushed.overlapText # <<>>
  THEN SeedOverlap(flushed, flushed.overlapStartOffset)
  ELSE [flushed EXCEPT !.chunkStartPos = segment.startPos,
                       !.currentChunkSegments = <<>>,
                       !.currentTokens = 0]
\* after flushChunk(): currentChunkSegments = [], currentTokens = 0, and
\* the overlap, if there is one, is pushed as the first segment
Reseed(flushed, segment) ==
  IF flushed.overlapText # <<>>
  THEN SeedOverlap(flushed,
                   IF flushed.chunks # <<>>
                   THEN flushed.chunks[Len(flushed.chunks)].pos
                        + flushed.overlapStartOffset
                   ELSE flushed.chunkStartPos)
  ELSE [flushed EXCEPT !.chunkStartPos = segment.startPos,
                       !.currentChunkSegments = <<>>,
                       !.currentTokens = 0]
\* the body of the loop over the segments: the part under
\* if (testTokens > this.maxTokens)
StartNextChunk(st, segment, o) == Reseed(flushChunk(st, o), segment)

\* the end of the body of the loop: the segment is pushed
PushSegment(st, segment) ==
  [st EXCEPT
     !.chunkStartPos =
        IF st.currentChunkSegments = <<>> THEN segment.startPos ELSE @,
     !.currentChunkSegments = Append(@, segment),
     !.currentTokens = @ + segment.tokens]

\* the body of the loop over the segments
AddSegment(st, segment, o) ==
  PushSegment(IF st.currentTokens + segment.tokens > o.maxTokens
              THEN StartNextChunk(st, segment, o) ELSE st,
              segment)

RECURSIVE AddSegments(_, _, _)
AddSegments(st, segments, o) ==
  IF segments = <<>> THEN st
  ELSE AddSegments(AddSegment(st, Head(segments), o), Tail(segments), o)

\* chunkDocument: the state before the loop over the segments
BeforeLoop ==
  [chunks |-> <<>>, currentChunkSegments |-> <<>>, currentTokens |-> 0,
   seq |-> 0, chunkStartPos |-> 0, overlapText |-> <<>>, overlapTokens |-> 0,
   overlapStartOffset |-> 0]
\* slip: the segments left after the loop are not pushed
AfterLoopDropsRest(st) == st.chunks
\* chunkDocument: the chunk of the segments left after the loop
AfterLoop(st) ==
  IF st.currentChunkSegments # <<>> THEN Append(st.chunks, ChunkOf(st))
  ELSE st.chunks
\* chunkDocument for a content of more than maxTokens
ChunksOfSegments(segments, o) ==
  AfterLoop(AddSegments(BeforeLoop, segments, o))

\* slip: a content of exactly maxTokens is split too
ChunksOfTrimmedBelow(trimmedContent, totalTokens, o) ==
  IF totalTokens < o.maxTokens
  THEN <<[seq |-> 0, pos |-> 0, text |-> trimmedContent,
          tokenCount |-> totalTokens]>>
  ELSE ChunksOfSegments(buildSegments(trimmedContent, o.maxTokens), o)
\* chunkDocument for a non-blank content, trimmed
ChunksOfTrimmed(trimmedContent, totalTokens, o) ==
  IF totalTokens <= o.maxTokens
  THEN <<[seq |-> 0, pos |-> 0, text |-> trimmedContent,
          tokenCount |-> totalTokens]>>
  ELSE ChunksOfSegments(buildSegments(trimmedContent, o.maxTokens), o)

chunkDocument(content, o) ==
  IF Trim(content) = <<>> THEN <<>>
  ELSE ChunksOfTrimmed(Trim(content), estimateTokenCount(Trim(content)), o)

\* the contents: words, some ending a sentence, some capitalised, with a
\* blank or a paragraph break between them, and blank contents
Lexemes == {<<"a">>, <<"a", ".">>, <<"A">>}
Separators == {<<" ">>, <<"\n", "\n">>}
RECURSIVE ContentsOf(_)
ContentsOf(n) ==
  IF n = 1 THEN Lexemes
  ELSE {c \o sep \o w : c \in ContentsOf(n - 1), sep \in Separators, w \in Lexemes}
BlankContents == {<<>>, <<" ">>, <<"\n", " ">>}
Contents ==
  BlankContents
  \cup UNION {ContentsOf(n) : n \in 1..MaxWords}
  \cup {<<" ">> \o c \o <<"\n">> : c \in ContentsOf(2)}

CkMaxTokens == {3, 4}
OverlapPercents == {Frac(0, 1), Frac(1, 2), Frac(3, 4)}
CkOptionSets == [maxTokens : CkMaxTokens, overlapPercent : OverlapPercents]

CkInit ==
  /\ ckOptions \in CkOptionSets
  /\ ckContent \in Contents
  /\ ckPc = "call"
  /\ ckChunks = None
  /\ HybridIdle
  /\ FtsIdle
  /\ VsIdle
  /\ BpIdle
  /\ LaterIdle

nonCkVars == <<hybridVars, ftsVars, vsVars, bpVars, laterVars>>

\* !content || content.trim().length === 0
CkReturnEmpty ==
  /\ ckPc = "call"
  /\ Trim(ckContent) = <<>>
  /\ ckChunks' = Some(chunkDocument(ckContent, ckOptions))
  /\ ckPc' = "returned"
  /\ UNCHANGED <<nonCkVars, ckOptions, ckContent>>

\* totalTokens <= this.maxTokens
CkReturnSingle ==
  /\ ckPc = "call"
  /\ Trim(ckContent) # <<>>
  /\ estimateTokenCount(Trim(ckContent)) <= ckOptions.maxTokens
  /\ ckChunks' = Some(chunkDocument(ckContent, ckOptions))
  /\ ckPc' = "returned"
  /\ UNCHANGED <<nonCkVars, ckOptions, ckContent>>

\* the segments are built and accumulated into chunks
CkReturnChunks ==
  /\ ckPc = "call"
  /\ Trim(ckContent) # <<>>
  /\ estimateTokenCount(Trim(ckContent)) > ckOptions.maxTokens
  /\ ckChunks' = Some(chunkDocument(ckContent, ckOptions))
  /\ ckPc' = "returned"
  /\ UNCHANGED <<nonCkVars, ckOptions, ckContent>>

CkNext ==
  \/ CkReturnEmpty
  \/ CkReturnSingle
  \/ CkReturnChunks

CkSpec == CkInit /\ [][CkNext]_vars

\* ----------------------------------------------------------- properties
CkReturned == ckPc = "returned"
\* the segments chunkDocument worked on
CkSegments == buildSegments(Trim(ckContent), ckOptions.maxTokens)

\* C19: chunkDocument returns [] for an empty or whitespace-only content, and
\* exactly one chunk with seq 0, pos 0, the trimmed content as text and the
\* estimate of the whole document as tokenCount when that estimate is at
\* most maxTokens.
C19_EmptyOrSingleChunk ==
  CkReturned
  => /\ (\A i \in DOMAIN ckContent : ckContent[i] \in {" ", "\n"})
        => ckChunks = Some(<<>>)
     /\ (/\ \E i \in DOMAIN ckContent : ckContent[i] \notin {" ", "\n"}
         /\ estimateTokenCount(Trim(ckContent)) <= ckOptions.maxTokens)
        => /\ Len(ckChunks[1]) = 1
           /\ ckChunks[1][1].seq = 0
           /\ ckChunks[1][1].pos = 0
           /\ ckChunks[1][1].text = Trim(ckContent)
           /\ ckChunks[1][1].tokenCount = estimateTokenCount(Trim(ckContent))

\* a content of exactly maxTokens, given with whitespace around it
C19_Witness ==
  /\ CkReturned
  /\ ckContent = <<" ", "a", ".", " ", "A", "\n">>
  /\ ckOptions.maxTokens = 4
  /\ estimateTokenCount(Trim(ckContent)) = 4
  /\ Len(ckChunks[1]) = 1

\* C20: every chunk's tokenCount is at most maxTokens, whenever every
\* segment has at most maxTokens tokens, for any overlapPercent in [0, 1).
C20_ChunksTokenBounded ==
  (/\ CkReturned
   /\ \A i \in DOMAIN CkSegments : CkSegments[i].tokens <= ckOptions.maxTokens)
  => \A i \in DOMAIN ckChunks[1] :
       ckChunks[1][i].tokenCount <= ckOptions.maxTokens

\* the chunks returned
CkChunks == ckChunks[1]
\* the call went through the loop over the segments
CkSplit ==
  /\ CkReturned
  /\ Trim(ckContent) # <<>>
  /\ estimateTokenCount(Trim(ckContent)) > ckOptions.maxTokens

\* the overlap the chunk after chunk i is pre-seeded with ('' if none)
SeedOf(i) == extractOverlapText(CkChunks[i].text, OverlapTokens(ckOptions)).text
\* chunk i starts with an overlap pre-seed
Seeded(i) == i > 1 /\ SeedOf(i - 1) # <<>>

Remainder(i) ==
  IF Seeded(i)
  THEN SubSeq(CkChunks[i].text, Len(SeedOf(i - 1)) + 2, Len(CkChunks[i].text))
  ELSE CkChunks[i].text
\* chunk i is its pre-seed, if any, joined with the remainder
StartsWithSeed(i) ==
  Seeded(i)
  => SubSeq(CkChunks[i].text, 1, Len(SeedOf(i - 1)) + 1) = SeedOf(i - 1) \o <<" ">>
\* the non-overlap segments of the chunks: the consecutive, non-empty
\* groups the segments fall into
RECURSIVE GroupsFrom(_, _)
GroupsFrom(segments, i) ==
  IF i > Len(CkChunks) THEN segments = <<>>
  ELSE \E n \in 1..Len(segments) :
         /\ Remainder(i) = ChunkText(SubSeq(segments, 1, n))
         /\ GroupsFrom(SubSeq(segments, n + 1, Len(segments)), i + 1)

\* C22: every segment of the trimmed content is placed in exactly one chunk
\* as a non-overlap segment, in document order, and every chunk holds at
\* least one: the chunks without their pre-seeded overlap prefixes are the
\* segments in order, none lost and none repeated.
C22_SegmentsCoveredOnce ==
  CkSplit
  => /\ \A i \in DOMAIN CkChunks : StartsWithSeed(i)
     /\ GroupsFrom(CkSegments, 1)

\* a pre-seeded chunk among at least three, over at least four segments
C22_Witness ==
  /\ CkSplit
  /\ Len(CkChunks) >= 3
  /\ Len(CkSegments) >= 4
  /\ \E i \in 2..Len(CkChunks) : Seeded(i)
  /\ GroupsFrom(CkSegments, 1)


\* ======================================================================
\* QMDPlugin file watcher (main.ts) over DocumentIndexer (indexer.ts) and
\* the documents table (SCHEMA_SQL)
\* ======================================================================
MarkdownPaths == {"a.md", "b.md"}
FileContents == {"x", "y"}

\* hashContent: the first 6 hex digits of the SHA-256 of the content
hashContent(content) == IF content = "x" THEN "2d7116" ELSE "a1fce4"

\* rows of documents WHERE path = ?
RowsAt(documents, path) == {r \in documents : r.path = path}
\* rows another path holds under the hash: hash TEXT PRIMARY KEY
HashTaken(documents, hash, path) ==
  \E r \in documents : r.hash = hash /\ r.path # path

\* indexFile: INSERT INTO documents ... ON CONFLICT(path) DO UPDATE SET
\* hash = excluded.hash, ..., active = 1. The statement fails when another
\* path's row holds the hash. Reading the file succeeds and the content is
\* not binary.
IndexFileFails(documents, path, content) ==
  HashTaken(documents, hashContent(content), path)
indexFile(documents, path, content) ==
  (documents \ RowsAt(documents, path))
  \cup {[hash |-> hashContent(content), path |-> path, active |-> 1]}

\* removeDocument: UPDATE documents SET active = 0 WHERE path = ?
removeDocument(documents, path) ==
  {IF r.path = path THEN [r EXCEPT !.active = 0] ELSE r : r \in documents}

\* renameDocument: UPDATE documents SET path = ? WHERE path = ?, refused by
\* path TEXT UNIQUE when a row holds the new path already
RenameDocumentFails(documents, oldPath, newPath) ==
  /\ RowsAt(documents, oldPath) # {}
  /\ RowsAt(documents, newPath) # {}
  /\ oldPath # newPath
renameDocument(documents, oldPath, newPath) ==
  IF RenameDocumentFails(documents, oldPath, newPath) THEN documents
  ELSE {IF r.path = oldPath THEN [r EXCEPT !.path = newPath] ELSE r :
          r \in documents}

\* a new vault and a new database
FwInit ==
  /\ fwVault = [p \in MarkdownPaths |-> None]
  /\ fwDocuments = {}
  /\ fwTimeout = None
  /\ fwAwaiting = {}
  /\ fwErrors = {}
  /\ HybridIdle
  /\ FtsIdle
  /\ VsIdle
  /\ BpIdle
  /\ CkIdle
  /\ CmIdle
  /\ IxIdle
  /\ EmIdle
  /\ SmIdle

nonFwVars == <<hybridVars, ftsVars, vsVars, bpVars, ckVars, cmVars, ixVars,
               emVars, smVars>>

\* debouncedIndexFile: the one timeout of the plugin is cleared and set
debouncedIndexFile(path) == Some([path |-> path, pending |-> TRUE])

\* vault.on('create')
FwCreate(path, content) ==
  /\ fwVault # <<>>
  /\ fwVault[path] = None
  /\ fwVault' = [fwVault EXCEPT ![path] = Some(content)]
  /\ fwTimeout' = debouncedIndexFile(path)
  /\ fwAwaiting' = fwAwaiting \cup {path}
  /\ UNCHANGED <<nonFwVars, fwDocuments, fwErrors>>

\* vault.on('modify')
FwModify(path, content) ==
  /\ fwVault # <<>>
  /\ fwVault[path] # None
  /\ fwVault' = [fwVault EXCEPT ![path] = Some(content)]
  /\ fwTimeout' = debouncedIndexFile(path)
  /\ fwAwaiting' = fwAwaiting \cup {path}
  /\ UNCHANGED <<nonFwVars, fwDocuments, fwErrors>>

\* vault.on('delete'): indexer.removeDocument(file.path)
FwDelete(path) ==
  /\ fwVault # <<>>
  /\ fwVault[path] # None
  /\ fwVault' = [fwVault EXCEPT ![path] = None]
  /\ fwDocuments' = removeDocument(fwDocuments, path)
  /\ fwAwaiting' = fwAwaiting \ {path}
  /\ UNCHANGED <<nonFwVars, fwTimeout, fwErrors>>

\* vault.on('rename'): indexer.renameDocument(oldPath, file.path), its
\* rejection caught and logged
FwRename(oldPath, newPath) ==
  /\ fwVault # <<>>
  /\ oldPath # newPath
  /\ fwVault[oldPath] # None
  /\ fwVault[newPath] = None
  /\ fwVault' = [fwVault EXCEPT ![oldPath] = None, ![newPath] = fwVault[oldPath]]
  /\ fwDocuments' = renameDocument(fwDocuments, oldPath, newPath)
  /\ fwErrors' = IF RenameDocumentFails(fwDocuments, oldPath, newPath)
                 THEN fwErrors \cup {"rename"} ELSE fwErrors
  /\ fwAwaiting' = fwAwaiting \ {oldPath}
  /\ UNCHANGED <<nonFwVars, fwTimeout>>

\* the callback of the timeout, indexDebounceMs after it was set: the file
\* at the path, if there is one, goes to indexer.updateDocument; every
\* markdown file of the vault belongs to the collection
FwTimeoutFires ==
  /\ fwTimeout # None
  /\ fwTimeout[1].pending
  /\ fwTimeout' = Some([fwTimeout[1] EXCEPT !.pending = FALSE])
  /\ LET path == fwTimeout[1].path
     IN IF fwVault[path] = None
        THEN UNCHANGED <<fwDocuments, fwErrors, fwAwaiting>>
        ELSE /\ fwAwaiting' = fwAwaiting \ {path}
             /\ IF IndexFileFails(fwDocuments, path, fwVault[path][1])
                THEN /\ fwErrors' = fwErrors \cup {"index"}
                     /\ UNCHANGED fwDocuments
                ELSE /\ fwDocuments' =
                          indexFile(fwDocuments, path, fwVault[path][1])
                     /\ UNCHANGED fwErrors
  /\ UNCHANGED <<nonFwVars, fwVault>>

FwNext ==
  \/ \E path \in MarkdownPaths, content \in FileContents : FwCreate(path, content)
  \/ \E path \in MarkdownPaths, content \in FileContents : FwModify(path, content)
  \/ \E path \in MarkdownPaths : FwDelete(path)
  \/ \E oldPath \in MarkdownPaths, newPath \in MarkdownPaths :
       FwRename(oldPath, newPath)
  \/ FwTimeoutFires

FwSpec == FwInit /\ [][FwNext]_vars

\* ----------------------------------------------------------- properties
\* a callback of the file watcher is scheduled for the path
FwScheduled(path) == fwTimeout = Some([path |-> path, pending |-> TRUE])
\* an active document is stored under the path
ActiveAt(documents, path) == \E r \in documents : r.path = path /\ r.active = 1

\* C23: every markdown file with a create or modify event is re-indexed
\* once its events stop, whatever events other files get inside the
\* debounce window: while updateDocument has not been invoked for the file
\* since its last event, a callback for its path is scheduled.
C23_EventedFileGetsIndexed ==
  \A path \in fwAwaiting : FwScheduled(path)

\* C24: a rename of an indexed markdown file, handled with no debounced
\* work pending, leaves the document of the old path stored under the new
\* path and no active document under the old path, whatever events came
\* before.
C24_RenameMovesDocument ==
  [][\A oldPath \in MarkdownPaths, newPath \in MarkdownPaths :
       (/\ FwRename(oldPath, newPath)
        /\ ActiveAt(fwDocuments, oldPath)
        /\ ~(fwTimeout # None /\ fwTimeout[1].pending))
       => /\ \E r \in fwDocuments' :
               /\ r.path = newPath
               /\ \E q \in RowsAt(fwDocuments, oldPath) : q.hash = r.hash
          /\ ~ActiveAt(fwDocuments', oldPath)]_vars


\* ======================================================================
\* CollectionManager.removeCollection (manager.ts) on the tables of
\* SCHEMA_SQL
\* ======================================================================
\* the tables SCHEMA_SQL creates, with the columns a statement may name
SCHEMA_SQL ==
  [schema_migrations |-> {"version", "applied_at"},
   collections |-> {"id", "name", "path", "glob_pattern", "created_at",
                    "updated_at"},
   path_contexts |-> {"id", "collection_id", "path", "context", "created_at"},
   documents |-> {"hash", "collection_id", "path", "title", "content",
                  "active", "created_at", "updated_at", "indexed_at",
                  "rowid"},
   documents_fts |-> {"hash", "title", "content", "rowid"},
   content_vectors |-> {"hash_seq", "hash", "seq", "chunk_text",
                        "token_count", "created_at"},
   llm_cache |-> {"key", "value", "created_at", "accessed_at",
                  "access_count"}]

\* the three statements of removeCollection, each with the columns it
\* names per table
RemoveStatements ==
  <<[from |-> "embeddings",
     names |-> {<<"embeddings", "document_id">>, <<"documents", "id">>,
                <<"documents", "collection_id">>}],
    [from |-> "documents", names |-> {<<"documents", "collection_id">>}],
    [from |-> "collections", names |-> {<<"collections", "id">>}]>>

\* db.run throws: the statement names a table or a column the schema
\* does not have
StatementFails(schema, statement) ==
  \E name \in statement.names :
    \/ name[1] \notin DOMAIN schema
    \/ name[2] \notin schema[name[1]]

\* DELETE ... WHERE collection_id = ? / WHERE id = ?
DeleteFrom(table, rows, id) ==
  CASE table = "documents" -> {r \in rows : r.collection_id # id}
    [] table = "collections" -> {r \in rows : r.id # id}
    [] OTHER -> rows

CollectionNames == {"notes", "work", "archive"}
CollectionRows ==
  {[id |-> 1, name |-> "notes"], [id |-> 2, name |-> "work"]}
DocumentHashes == {"2d7116", "a1fce4", "2e7d2c"}

\* getCollection: the row of the name, None if there is none
getCollection(collections, name) ==
  IF \E r \in collections : r.name = name
  THEN Some(CHOOSE r \in collections : r.name = name) ELSE None

CmInit ==
  /\ cmCollections \in SUBSET CollectionRows
  /\ \E hashes \in SUBSET DocumentHashes :
       cmDocuments \in
         {{[hash |-> h, collection_id |-> of[h]] : h \in hashes} :
            of \in [hashes -> {r.id : r \in cmCollections}]}
  /\ \E name \in CollectionNames :
       cmCall = [name |-> name, collections |-> cmCollections,
                 documents |-> cmDocuments]
  /\ cmPc = "call"
  /\ cmStep = 0
  /\ cmError = None
  /\ HybridIdle
  /\ FtsIdle
  /\ VsIdle
  /\ BpIdle
  /\ CkIdle
  /\ FwIdle
  /\ IxIdle
  /\ EmIdle
  /\ SmIdle

nonCmVars == <<hybridVars, ftsVars, vsVars, bpVars, ckVars, fwVars, ixVars,
               emVars, smVars>>

\* if (!collection) throw new CollectionError(..., 'NOT_FOUND')
CmNotFound ==
  /\ cmPc = "call"
  /\ getCollection(cmCollections, cmCall.name) = None
  /\ cmPc' = "thrown"
  /\ cmError' = Some("NOT_FOUND")
  /\ UNCHANGED <<nonCmVars, cmCall, cmStep, cmCollections, cmDocuments>>

CmFound ==
  /\ cmPc = "call"
  /\ getCollection(cmCollections, cmCall.name) # None
  /\ cmPc' = "run"
  /\ UNCHANGED <<nonCmVars, cmCall, cmStep, cmCollections, cmDocuments, cmError>>

\* the next this.db.run(...) of removeCollection; what it throws is not
\* caught there
CmRun ==
  /\ cmPc = "run"
  /\ LET statement == RemoveStatements[cmStep + 1]
         id == getCollection(cmCall.collections, cmCall.name)[1].id
     IN IF StatementFails(SCHEMA_SQL, statement)
        THEN /\ cmPc' = "thrown"
             /\ cmError' = Some("SQLITE_ERROR")
             /\ UNCHANGED <<cmStep, cmCollections, cmDocuments>>
        ELSE /\ cmDocuments' = DeleteFrom(statement.from, cmDocuments, id)
             /\ cmCollections' =
                  IF statement.from = "collections"
                  THEN DeleteFrom(statement.from, cmCollections, id)
                  ELSE cmCollections
             /\ cmStep' = cmStep + 1
             /\ cmPc' = IF cmStep + 1 = Len(RemoveStatements)
                        THEN "returned" ELSE "run"
             /\ UNCHANGED cmError
  /\ UNCHANGED <<nonCmVars, cmCall>>

CmNext ==
  \/ CmNotFound
  \/ CmFound
  \/ CmRun

CmSpec == CmInit /\ [][CmNext]_vars

\* ----------------------------------------------------------- properties
CmDone == cmPc \in {"returned", "thrown"}

\* C25: removeCollection(name) of an existing collection completes without
\* error and leaves neither the collection row nor a document of its
\* collection_id; of a name that does not exist it throws NOT_FOUND and
\* leaves the tables as they were.
C25_RemoveCollectionRemoves ==
  CmDone
  => LET collection == getCollection(cmCall.collections, cmCall.name)
     IN IF collection # None
        THEN /\ cmPc = "returned"
             /\ getCollection(cmCollections, cmCall.name) = None
             /\ \A r \in cmDocuments : r.collection_id # collection[1].id
        ELSE /\ cmError = Some("NOT_FOUND")
             /\ cmCollections = cmCall.collections
             /\ cmDocuments = cmCall.documents


\* ======================================================================
\* DocumentIndexer (indexer.ts): the debounced handlers of file events
\* ======================================================================
MaxTimers == 4

IndexedPaths == {"a.md", "b.md"}

\* a call of a handler and the paths it is about
IxCall(call, paths) == [call |-> call, paths |-> paths]

\* the indexer's map and the host's timeouts, as one value
Debounce(timers, host, cleared) ==
  [timers |-> timers, host |-> host, cleared |-> cleared]

\* clearTimeout(timer) in the call by: the host drops the timeout if it
\* holds it
clearTimeout(d, id, by) ==
  [d EXCEPT !.host = {t \in @ : t.id # id},
            !.cleared = @ \cup {[id |-> t.id, path |-> t.path, by |-> by] :
                                  t \in {u \in d.host : u.id = id}}]

\* slip: the timer of the path is forgotten, not cleared
debounceUpdateKeepsOld(d, path, timer, by) ==
  [d EXCEPT !.host = @ \cup {timer}, !.timers[path] = Some(timer.id)]
\* debounceUpdate: the existing timer of the path is cleared, the new one
\* set and put in the map
debounceUpdate(d, path, timer, by) ==
  [(IF d.timers[path] # None THEN clearTimeout(d, d.timers[path][1], by)
    ELSE d)
   EXCEPT !.host = @ \cup {timer}, !.timers[path] = Some(timer.id)]

\* handleFileRename: the pending timer of the old path is cleared and its
\* entry deleted
CancelOldPath(d, oldPath, by) ==
  IF d.timers[oldPath] # None
  THEN [clearTimeout(d, d.timers[oldPath][1], by)
        EXCEPT !.timers[oldPath] = None]
  ELSE d

\* clearPendingUpdates: every timer of the map is cleared, the map emptied
RECURSIVE ClearAll(_, _)
ClearAll(d, paths) ==
  IF paths = {} THEN d
  ELSE LET path == CHOOSE q \in paths : TRUE
       IN ClearAll(CancelOldPath(d, path, IxCall("clearPendingUpdates",
                                                 IndexedPaths)),
                   paths \ {path})

IxInit ==
  /\ ixTimers = [path \in IndexedPaths |-> None]
  /\ ixHost = {}
  /\ ixNextId = 1
  /\ ixRan = {}
  /\ ixCleared = {}
  /\ HybridIdle
  /\ FtsIdle
  /\ VsIdle
  /\ BpIdle
  /\ CkIdle
  /\ FwIdle
  /\ CmIdle
  /\ EmIdle
  /\ SmIdle

nonIxVars == <<hybridVars, ftsVars, vsVars, bpVars, ckVars, fwVars, cmVars,
               emVars, smVars>>

IxCurrent == Debounce(ixTimers, ixHost, ixCleared)
\* the timeout the next setTimeout sets
IxTimer(path, kind) == [id |-> ixNextId, path |-> path, kind |-> kind]
\* the handler has run: the map and the host's timeouts are as in d
IxBecomes(d, timersSet) ==
  /\ ixTimers' = d.timers
  /\ ixHost' = d.host
  /\ ixCleared' = d.cleared
  /\ ixNextId' = ixNextId + timersSet
  /\ UNCHANGED <<nonIxVars, ixRan>>

IxHandleFileCreate(path) ==
  /\ ixNextId \in 1..MaxTimers
  /\ IxBecomes(debounceUpdate(IxCurrent, path, IxTimer(path, "create"),
                              IxCall("create", {path})), 1)

IxHandleFileModify(path) ==
  /\ ixNextId \in 1..MaxTimers
  /\ IxBecomes(debounceUpdate(IxCurrent, path, IxTimer(path, "modify"),
                              IxCall("modify", {path})), 1)

IxHandleFileDelete(path) ==
  /\ ixNextId \in 1..MaxTimers
  /\ IxBecomes(debounceUpdate(IxCurrent, path, IxTimer(path, "delete"),
                              IxCall("delete", {path})), 1)

IxHandleFileRename(oldPath, newPath) ==
  /\ ixNextId \in 1..MaxTimers
  /\ oldPath # newPath
  /\ IxBecomes(debounceUpdate(CancelOldPath(IxCurrent, oldPath,
                                            IxCall("rename", {oldPath, newPath})),
                              newPath, IxTimer(newPath, "rename"),
                              IxCall("rename", {oldPath, newPath})), 1)

\* DEBOUNCE_MS after it was set, a timeout the host still holds fires:
\* this.debounceTimers.delete(path); await callback()
IxTimerFires(timer) ==
  /\ timer \in ixHost
  /\ ixHost' = ixHost \ {timer}
  /\ ixTimers' = [ixTimers EXCEPT ![timer.path] = None]
  /\ ixRan' = ixRan \cup {timer}
  /\ UNCHANGED <<nonIxVars, ixNextId, ixCleared>>

IxClearPendingUpdates ==
  /\ ixNextId >= 1
  /\ ixHost # {}
  /\ IxBecomes(ClearAll(IxCurrent, IndexedPaths), 0)

IxTimerKinds == {"create", "modify", "delete", "rename"}
IxTimeouts == [id : 1..(MaxTimers + 1), path : IndexedPaths, kind : IxTimerKinds]

IxNext ==
  \/ \E path \in IndexedPaths : IxHandleFileCreate(path)
  \/ \E path \in IndexedPaths : IxHandleFileModify(path)
  \/ \E path \in IndexedPaths : IxHandleFileDelete(path)
  \/ \E oldPath \in IndexedPaths, newPath \in IndexedPaths :
       IxHandleFileRename(oldPath, newPath)
  \/ \E timer \in IxTimeouts : IxTimerFires(timer)
  \/ IxClearPendingUpdates

IxSpec == IxInit /\ [][IxNext]_vars

\* ----------------------------------------------------------- properties
\* the callbacks scheduled for the path and not yet fired
IxPending(path) == {t \in ixHost : t.path = path}

\* C26: debounceTimers holds an entry for a path exactly when one callback
\* for the path is scheduled and not yet fired, and never more than one is;
\* a callback superseded, cancelled by a rename of its path or by
\* clearPendingUpdates never runs; and no event cancels a pending callback
\* of a path it is not about.
C26_DebounceTimersMatchScheduled ==
  ixTimers # <<>>
  => /\ \A path \in IndexedPaths :
          /\ Cardinality(IxPending(path)) <= 1
          /\ ixTimers[path] # None <=> IxPending(path) # {}
          /\ ixTimers[path] # None
             => \E t \in IxPending(path) : t.id = ixTimers[path][1]
     /\ \A c \in ixCleared : \A t \in ixRan : t.id # c.id
     /\ \A c \in ixCleared : c.path \in c.by.paths

\* a superseded callback, one cancelled by a rename, one cancelled by
\* clearPendingUpdates and one that ran
C26_Witness ==
  /\ \E c \in ixCleared : c.by.call = "modify"
  /\ \E c \in ixCleared : c.by.call = "rename"
  /\ \E c \in ixCleared : c.by.call = "clearPendingUpdates"
  /\ ixRan # {}


\* C27: with continueOnError = true processChunks accounts for every chunk
\* exactly once: on return successfulEmbeddings + failedEmbeddings =
\* totalChunks, and successfulEmbeddings is the number of chunks whose
\* insert was committed, whatever embeddings fail and whatever the
\* database refuses, a refusal in the middle of a batch included.
C27_EveryChunkCountedOnce ==
  (bpPc = "returned" /\ bpOptions.continueOnError)
  => /\ bpCompleted + bpFailed = bpChunks
     /\ bpCompleted = Cardinality(bpStored)


\* ======================================================================
\* OllamaEmbedder (db.ts): isAvailable, testConnection and
\* generateEmbedding, as called for a chunk by the BatchEmbeddingProcessor
\* ======================================================================
\* model and fallbackModel of DEFAULT_CONFIG
DEFAULT_MODEL == "nomic-embed-text"
DEFAULT_FALLBACK_MODEL == "mxbai-embed-large"

\* what GET /api/tags gives: the request fails, the status is not ok, or
\* the names of the models the service lists
TagsAnswers ==
  {[kind |-> "refused", names |-> {}], [kind |-> "notOk", names |-> {}]}
  \cup {[kind |-> "ok", names |-> names] :
          names \in SUBSET {DEFAULT_MODEL, DEFAULT_FALLBACK_MODEL}}
\* what POST /api/embed gives
EmbedAnswers == {"ok", "404", "500", "noEmbedding", "refused"}

\* the embedder's cache: modelAvailable and actualModel
Cache(modelAvailable, actualModel) ==
  [modelAvailable |-> modelAvailable, actualModel |-> actualModel]

\* isAvailable: the cache after the answer to GET /api/tags
isAvailable(cache, tags) ==
  CASE tags.kind = "refused" -> [cache EXCEPT !.modelAvailable = Some(FALSE)]
    [] tags.kind = "notOk" -> cache
    [] DEFAULT_MODEL \in tags.names ->
         Cache(Some(TRUE), DEFAULT_MODEL)
    [] DEFAULT_FALLBACK_MODEL \in tags.names ->
         Cache(Some(TRUE), DEFAULT_FALLBACK_MODEL)
    [] OTHER -> [cache EXCEPT !.modelAvailable = Some(FALSE)]

\* testConnection, read by checkOllamaAvailability: connected and
\* modelAvailable
checkOllamaAvailability(tags) ==
  /\ tags.kind = "ok"
  /\ tags.names \cap {DEFAULT_MODEL, DEFAULT_FALLBACK_MODEL} # {}

\* the code generateEmbedding rejects with after an answer that is not ok
\* and not a 404 to retry
EmbeddingErrorCode(answer) ==
  CASE answer = "404" -> "MODEL_NOT_FOUND"
    [] answer = "500" -> "API_ERROR"
    [] answer = "noEmbedding" -> "INVALID_RESPONSE"
    [] answer = "refused" -> "CONNECTION_REFUSED"

EmInit ==
  /\ emModelAvailable = None
  /\ emActualModel = DEFAULT_MODEL
  /\ emPc = "idle"
  /\ emChecked = FALSE
  /\ emRequests = <<>>
  /\ emResponses = <<>>
  /\ emError = None
  /\ HybridIdle
  /\ FtsIdle
  /\ VsIdle
  /\ BpIdle
  /\ CkIdle
  /\ FwIdle
  /\ CmIdle
  /\ IxIdle
  /\ SmIdle

nonEmVars == <<hybridVars, ftsVars, vsVars, bpVars, ckVars, fwVars, cmVars,
               ixVars, smVars>>

\* no call of generateEmbedding is under way
EmBetweenCalls == emPc \in {"idle", "unavailable", "resolved", "thrown"}

\* a call of generateEmbedding begins
EmBegins(checked) ==
  /\ emPc' = "call"
  /\ emChecked' = checked
  /\ emRequests' = <<>>
  /\ emResponses' = <<>>
  /\ emError' = None

\* generateEmbedding after the availability check, with the cache as
\* given: modelAvailable === false rejects, anything else issues the embed
\* request for actualModel
EmAfterCheck(cache) ==
  /\ emModelAvailable' = cache.modelAvailable
  /\ emActualModel' = cache.actualModel
  /\ IF cache.modelAvailable = Some(FALSE)
     THEN /\ emPc' = "thrown"
          /\ emError' = Some("MODEL_NOT_FOUND")
          /\ UNCHANGED emRequests
     ELSE /\ emPc' = "embed"
          /\ emRequests' = Append(emRequests, cache.actualModel)
          /\ UNCHANGED emError

\* generateEmbedding of a text that is not blank, from its top: with
\* modelAvailable === null it awaits isAvailable() first
EmEnters(cache) ==
  IF cache.modelAvailable = None
  THEN /\ emPc' = "isAvailable"
       /\ emModelAvailable' = cache.modelAvailable
       /\ emActualModel' = cache.actualModel
       /\ UNCHANGED <<emRequests, emError>>
  ELSE EmAfterCheck(cache)

\* embedder.isAvailable() called between two embeddings, as
\* VectorSearcher.search does
EmIsAvailable(tags) ==
  /\ EmBetweenCalls
  /\ emModelAvailable' =
       isAvailable(Cache(emModelAvailable, emActualModel), tags).modelAvailable
  /\ emActualModel' =
       isAvailable(Cache(emModelAvailable, emActualModel), tags).actualModel
  /\ UNCHANGED <<nonEmVars, emPc, emChecked, emRequests, emResponses, emError>>

\* processDocumentsWithGracefulDegradation: checkOllamaAvailability, and
\* if it reports available, the embedding of a chunk
EmProcessDocuments(tags) ==
  /\ EmBetweenCalls
  /\ IF checkOllamaAvailability(tags)
     THEN EmBegins(TRUE)
     ELSE /\ emPc' = "unavailable"
          /\ emChecked' = FALSE
          /\ emRequests' = <<>>
          /\ emResponses' = <<>>
          /\ emError' = None
  /\ UNCHANGED <<nonEmVars, emModelAvailable, emActualModel>>

\* generateEmbedding called without that check, as for a search query
EmGenerateEmbedding ==
  /\ EmBetweenCalls
  /\ EmBegins(FALSE)
  /\ UNCHANGED <<nonEmVars, emModelAvailable, emActualModel>>

\* generateEmbedding of an empty or blank text
EmBlankText ==
  /\ EmBetweenCalls
  /\ emPc' = "thrown"
  /\ emChecked' = FALSE
  /\ emRequests' = <<>>
  /\ emResponses' = <<>>
  /\ emError' = Some("INVALID_RESPONSE")
  /\ UNCHANGED <<nonEmVars, emModelAvailable, emActualModel>>

\* the call runs up to its first await
EmStarts ==
  /\ emPc = "call"
  /\ EmEnters(Cache(emModelAvailable, emActualModel))
  /\ UNCHANGED <<nonEmVars, emChecked, emResponses>>

\* await this.isAvailable() of generateEmbedding returns
EmIsAvailableReturns(tags) ==
  /\ emPc = "isAvailable"
  /\ EmAfterCheck(isAvailable(Cache(emModelAvailable, emActualModel), tags))
  /\ UNCHANGED <<nonEmVars, emChecked, emResponses>>

\* the answer to the embed request: a 404 with actualModel not the fallback
\* sets actualModel to the fallback and calls generateEmbedding again
EmEmbedAnswers(answer) ==
  /\ emPc = "embed"
  /\ emResponses' = Append(emResponses, answer)
  /\ IF answer = "ok"
     THEN /\ emPc' = "resolved"
          /\ UNCHANGED <<emModelAvailable, emActualModel, emRequests, emError>>
     ELSE IF answer = "404" /\ emActualModel # DEFAULT_FALLBACK_MODEL
     THEN EmEnters(Cache(emModelAvailable, DEFAULT_FALLBACK_MODEL))
     ELSE /\ emPc' = "thrown"
          /\ emError' = Some(EmbeddingErrorCode(answer))
          /\ UNCHANGED <<emModelAvailable, emActualModel, emRequests>>
  /\ UNCHANGED <<nonEmVars, emChecked>>

EmNext ==
  \/ \E tags \in TagsAnswers : EmIsAvailable(tags)
  \/ \E tags \in TagsAnswers : EmProcessDocuments(tags)
  \/ EmGenerateEmbedding
  \/ EmBlankText
  \/ EmStarts
  \/ \E tags \in TagsAnswers : EmIsAvailableReturns(tags)
  \/ \E answer \in EmbedAnswers : EmEmbedAnswers(answer)

EmSpec == EmInit /\ [][EmNext]_vars

\* ----------------------------------------------------------- properties
\* C28: one call of generateEmbedding issues at most two embed requests,
\* the second only after a 404 for the primary model and for the fallback
\* model; a 404 while the active model is the fallback rejects with
\* MODEL_NOT_FOUND and no further request; no other failure is retried.
C28_AtMostTwoRequests ==
  /\ Len(emRequests) <= 2
  /\ Len(emRequests) = 2
     => /\ emRequests[1] = DEFAULT_MODEL
        /\ emRequests[2] = DEFAULT_FALLBACK_MODEL
  /\ \A i \in DOMAIN emResponses :
       /\ i < Len(emRequests) => emResponses[i] = "404"
       /\ (emResponses[i] = "404" /\ emRequests[i] = DEFAULT_FALLBACK_MODEL)
          => /\ i = Len(emRequests)
             /\ emPc = "thrown"
             /\ emError = Some("MODEL_NOT_FOUND")

\* C29: a chunk embedded after checkOllamaAvailability reported the service
\* and a model available is not failed with MODEL_NOT_FOUND without an
\* embed request, whatever the embedder saw in earlier calls.
C29_CheckedChunkIsRequested ==
  (emChecked /\ emPc = "thrown" /\ emError = Some("MODEL_NOT_FOUND"))
  => emRequests # <<>>


\* ======================================================================
\* QMDSearchModal (search-modal.ts): input, tabs and executeSearch
\* ======================================================================
SearchModes == {"hybrid", "bm25", "vector"}
\* what the user may leave in the input
InputValues == {<<>>, <<" ">>, <<"a">>, <<"b", " ">>}

\* this.searchInputEl?.value.trim() || ''
QueryOf(value) == Trim(value)

SmInit ==
  /\ smInput = <<>>
  /\ smActiveTab = "hybrid"
  /\ smTimeout = None
  /\ smIsSearching = FALSE
  /\ smInFlight = None
  /\ smDisplayed = [kind |-> "empty", query |-> <<>>, tab |-> ""]
  /\ HybridIdle
  /\ FtsIdle
  /\ VsIdle
  /\ BpIdle
  /\ CkIdle
  /\ FwIdle
  /\ CmIdle
  /\ IxIdle
  /\ EmIdle

nonSmVars == <<hybridVars, ftsVars, vsVars, bpVars, ckVars, fwVars, cmVars,
               ixVars, emVars>>

\* executeSearch(query) up to its await: nothing if isSearching, else the
\* loading text is shown and the searcher of the active tab is called
executeSearch(q, tab) ==
  IF smIsSearching
  THEN UNCHANGED <<smIsSearching, smInFlight, smDisplayed>>
  ELSE /\ smIsSearching' = TRUE
       /\ smInFlight' = Some([query |-> q, tab |-> tab])
       /\ smDisplayed' = [kind |-> "loading", query |-> q, tab |-> tab]

\* the timeout is cleared, if one is pending
Cleared(timeout) ==
  IF timeout = None THEN None
  ELSE Some([timeout[1] EXCEPT !.pending = FALSE])

\* the user edits the input: handleInput
SmHandleInput(value) ==
  /\ smActiveTab # ""
  /\ value # smInput
  /\ smInput' = value
  /\ IF QueryOf(value) = <<>>
     THEN /\ smTimeout' = Cleared(smTimeout)
          /\ smDisplayed' = [kind |-> "empty", query |-> <<>>, tab |-> ""]
     ELSE /\ smTimeout' = Some([query |-> QueryOf(value), pending |-> TRUE])
          /\ UNCHANGED smDisplayed
  /\ UNCHANGED <<nonSmVars, smActiveTab, smIsSearching, smInFlight>>

\* the user clicks a tab: switchTab
SmSwitchTab(mode) ==
  /\ smActiveTab # ""
  /\ smActiveTab' = mode
  /\ IF QueryOf(smInput) # <<>>
     THEN executeSearch(QueryOf(smInput), mode)
     ELSE UNCHANGED <<smIsSearching, smInFlight, smDisplayed>>
  /\ UNCHANGED <<nonSmVars, smInput, smTimeout>>

\* 300 ms after the last input, the callback of the timeout
SmTimeoutFires ==
  /\ smTimeout # None
  /\ smTimeout[1].pending
  /\ smTimeout' = Cleared(smTimeout)
  /\ executeSearch(smTimeout[1].query, smActiveTab)
  /\ UNCHANGED <<nonSmVars, smInput, smActiveTab>>

\* the awaited search settles: the results are rendered, or the error is
\* shown; finally isSearching = false
SmSearchSettles(kind) ==
  /\ smInFlight # None
  /\ smDisplayed' = [kind |-> kind, query |-> smInFlight[1].query,
                     tab |-> smInFlight[1].tab]
  /\ smIsSearching' = FALSE
  /\ smInFlight' = None
  /\ UNCHANGED <<nonSmVars, smInput, smActiveTab, smTimeout>>

SmNext ==
  \/ \E value \in InputValues : SmHandleInput(value)
  \/ \E mode \in SearchModes : SmSwitchTab(mode)
  \/ SmTimeoutFires
  \/ \E kind \in {"results", "error"} : SmSearchSettles(kind)

SmSpec == SmInit /\ [][SmNext]_vars

\* ----------------------------------------------------------- properties
\* the user has stopped typing and no search is in flight
SmQuiet ==
  /\ smActiveTab # ""
  /\ ~(smTimeout # None /\ smTimeout[1].pending)
  /\ ~smIsSearching

\* C30: once the user has stopped typing and every search in flight has
\* finished, what is displayed is the outcome of the search for the query
\* in the input, if it is not empty, in the active tab: no query whose
\* timeout fires, and no tab switch, during an earlier search is lost.
C30_DisplayedIsLastQuery ==
  (SmQuiet /\ QueryOf(smInput) # <<>>)
  => /\ smDisplayed.query = QueryOf(smInput)
     /\ smDisplayed.tab = smActiveTab

====
